---- MODULE Spec2Model ----
(***************************************************************************)
(* A model of quant-trading-strategy-backtester: the strategies' signal    *)
(* generation, Backtester.run / get_performance_metrics, the parameter     *)
(* optimiser and the concurrent market-capitalisation ranking.             *)
(*                                                                         *)
(* Numbers.  A polars Float64 cell is modelled as a record                 *)
(*     [k |-> kind, n |-> numerator, d |-> denominator]                    *)
(* with kind "fin" (the exact rational n/d, reduced, d > 0), "inf",        *)
(* "ninf", "nan" (IEEE-754 specials) or "null" (a polars null / Python     *)
(* None).  Finite arithmetic is exact: rounding is not modelled.           *)
(***************************************************************************)
EXTENDS Integers, Sequences, FiniteSets, TLC

VARIABLES
  \* Backtester: self.data, self.strategy, self.initial_capital, self.results
  data, strategy, initial_capital, results,
  \* the outcome of the last call on the Backtester: [op, err, val]
  ret,
  \* history: run() has returned normally at least once
  completed,
  \* the installed polars: [std_of_one, nan_order], what rolling_std gives
  \* for a window holding one value ("zero": 0.0, or "null") and how its
  \* comparisons order NaN ("ieee": every comparison false, or "total": NaN
  \* above every number)
  polars_build,
  \* --- optimise_strategy_params(opt_data, strategy_type, parameter_ranges)
  opt_data,
  strategy_type,
  \* the dict in insertion order: a sequence of [name, values]
  parameter_ranges,
  \* how many of param_combinations the loop has been through
  opt_i,
  best_params,
  best_metrics,
  best_sharpe_ratio,
  \* history: the candidates run_backtest has returned for, in order, each
  \* with the Sharpe ratio of its metrics
  evaluated,
  \* how the call ended: [status, err, params, metrics]
  opt_ret,
  \* --- get_top_sp500_companies(num_companies)
  \* the Symbol column of the constituents table
  tickers,
  \* what yf.Ticker(t).info does for each ticker: raises, or a dict whose
  \* "marketCap" is a number or missing
  info,
  num_companies,
  \* the tickers whose future as_completed has not yielded yet
  pending,
  sp500_companies,
  \* how the call ended: [status, val]
  rank_ret,
  \* --- run_backtest(rb_data, rb_type, rb_params)
  rb_data,
  rb_type,
  rb_params,
  \* the statement the call is at
  rb_pc,
  \* the local variable strategy
  rb_strategy,
  \* how the call ended: [status, err, metrics]
  rb_ret,
  \* --- the ticker optimisers: the tickers of top_companies, in rank order
  \* (the market caps are not read)
  top_companies,
  \* what Yahoo Finance has for each ticker: its closing prices from the
  \* start date on, or None
  yf_closes,
  \* --- optimise_buy_and_hold_ticker(top_companies, ...)
  \* how many of top_companies the loop has been through
  bh_i,
  bh_best_ticker,
  bh_best_metrics,
  bh_best_total_return,
  \* history: the candidates that yielded metrics, in order: [ticker, metrics]
  bh_evaluated,
  \* how the call ended: [status, err, val]
  bh_ret,
  \* --- optimise_pairs_trading_tickers(top_companies, ..., strategy_params,
  \* optimise)
  \* what yf.Ticker(t).info does for each ticker: raises, or holds a longName
  long_names,
  pt_strategy_params,
  pt_optimise,
  \* the local variable ticker_pairs
  ticker_pairs,
  \* how many of ticker_pairs the loop has been through
  pt_i,
  pt_best_pair,
  pt_best_params,
  pt_best_metrics,
  pt_best_sharpe_ratio,
  \* history: the pairs a backtest has returned for, in order: [pair, metrics]
  pt_evaluated,
  \* how the call ended: [status, err, val]
  pt_ret

btVars == <<data, strategy, initial_capital, results, ret, completed, polars_build>>
optVars == <<opt_data, strategy_type, parameter_ranges, opt_i, best_params,
             best_metrics, best_sharpe_ratio, evaluated, opt_ret>>
rankVars == <<tickers, info, num_companies, pending, sp500_companies, rank_ret>>
rbVars == <<rb_data, rb_type, rb_params, rb_pc, rb_strategy, rb_ret>>
yfVars == <<top_companies, yf_closes>>
bhVars == <<bh_i, bh_best_ticker, bh_best_metrics, bh_best_total_return,
            bh_evaluated, bh_ret>>
ptVars == <<long_names, pt_strategy_params, pt_optimise, ticker_pairs, pt_i,
            pt_best_pair, pt_best_params, pt_best_metrics, pt_best_sharpe_ratio,
            pt_evaluated, pt_ret>>
tickerVars == <<yfVars, bhVars, ptVars>>
callVars == <<rbVars, tickerVars>>
vars == <<btVars, optVars, rankVars, callVars>>

\* ------------------------------------------------------------------ bounds
\* Longest single-instrument price series enumerated.
MaxRows == 3
\* Prices of the enumerated series are 0 and 3^0 .. 3^MaxPriceLevel.
MaxPriceLevel == 1
\* Longest price series of a pair enumerated, and the prices 1..MaxPairPrice
\* of its first leg.
MaxPairRows == 2
MaxPairPrice == 2
\* Constituents of the index enumerated, and their market caps 1..MaxCap.
MaxTickers == 3
MaxCap == 2
\* Longest rolling window / window candidate enumerated.
MaxWindow == 2
\* Longest price series given to run_backtest, or to a Backtester whose
\* strategy is not one of the library.
MaxBacktestRows == 2

\* ------------------------------------------------------- program constants
\* backtester.py:29  initial_capital: float = 100000.0
DefaultInitialCapital == 100000
\* backtester.py:132  (252**0.5): trading days per year
TradingDays == 252

\* ---------------------------------------------------------------- numbers
Abs(x) == IF x < 0 THEN -x ELSE x

RECURSIVE GCD(_, _)
GCD(a, b) == IF b = 0 THEN a ELSE GCD(b, a % b)

Null == [k |-> "null", n |-> 0, d |-> 1]
NaN == [k |-> "nan", n |-> 0, d |-> 1]
Inf == [k |-> "inf", n |-> 0, d |-> 1]
NInf == [k |-> "ninf", n |-> 0, d |-> 1]

\* The rational n/d (d # 0) in lowest terms with a positive denominator.
Rat(n, d) ==
  LET g == GCD(Abs(n), Abs(d))
      s == IF d < 0 THEN -1 ELSE 1
  IN [k |-> "fin", n |-> (s * n) \div g, d |-> (s * d) \div g]

Num(i) == Rat(i, 1)

IsFin(a) == a.k = "fin"
IsNull(a) == a.k = "null"
IsNaN(a) == a.k = "nan"
IsInf(a) == a.k \in {"inf", "ninf"}
IsZero(a) == a.k = "fin" /\ a.n = 0

\* Sign of a non-null, non-NaN value: -1, 0 or 1.
Sign(a) ==
  CASE a.k = "inf" -> 1
    [] a.k = "ninf" -> -1
    [] OTHER -> IF a.n > 0 THEN 1 ELSE IF a.n < 0 THEN -1 ELSE 0

SignedInf(s) == IF s > 0 THEN Inf ELSE NInf

Neg(a) ==
  CASE a.k = "fin" -> Rat(-a.n, a.d)
    [] a.k = "inf" -> NInf
    [] a.k = "ninf" -> Inf
    [] OTHER -> a

\* polars arithmetic: a null operand gives null; otherwise IEEE-754.
Add(a, b) ==
  CASE IsNull(a) \/ IsNull(b) -> Null
    [] IsNaN(a) \/ IsNaN(b) -> NaN
    [] IsInf(a) /\ IsInf(b) -> IF a.k = b.k THEN a ELSE NaN
    [] IsInf(a) -> a
    [] IsInf(b) -> b
    [] OTHER -> Rat(a.n * b.d + b.n * a.d, a.d * b.d)

Sub(a, b) == Add(a, Neg(b))

Mul(a, b) ==
  CASE IsNull(a) \/ IsNull(b) -> Null
    [] IsNaN(a) \/ IsNaN(b) -> NaN
    [] IsInf(a) \/ IsInf(b) ->
         IF IsZero(a) \/ IsZero(b) THEN NaN ELSE SignedInf(Sign(a) * Sign(b))
    [] OTHER -> Rat(a.n * b.n, a.d * b.d)

\* Float division: x/0 is +-inf, 0/0 is NaN (zeros are positive zeros).
Div(a, b) ==
  CASE IsNull(a) \/ IsNull(b) -> Null
    [] IsNaN(a) \/ IsNaN(b) -> NaN
    [] IsInf(a) /\ IsInf(b) -> NaN
    [] IsInf(b) -> Num(0)
    [] IsZero(b) -> IF IsZero(a) THEN NaN ELSE SignedInf(Sign(a))
    [] IsInf(a) -> SignedInf(Sign(a) * Sign(b))
    [] OTHER -> Rat(a.n * b.d, a.d * b.n)

\* IEEE comparisons of non-null values: any comparison with NaN is false.
Lt(a, b) ==
  CASE IsNaN(a) \/ IsNaN(b) -> FALSE
    [] a.k = "ninf" -> b.k # "ninf"
    [] b.k = "inf" -> a.k # "inf"
    [] a.k = "inf" \/ b.k = "ninf" -> FALSE
    [] OTHER -> a.n * b.d < b.n * a.d

Gt(a, b) == Lt(b, a)
Le(a, b) == ~IsNaN(a) /\ ~IsNaN(b) /\ ~Lt(b, a)
Ge(a, b) == Le(b, a)

\* --------------------------------------------------------- series (columns)
\* Series.shift(1): a leading null, the last value dropped.
Shift1(s) == IF Len(s) = 0 THEN << >> ELSE <<Null>> \o SubSeq(s, 1, Len(s) - 1)

\* Elementwise arithmetic of two columns of the same length.
SeriesSub(s, t) == [i \in 1..Len(s) |-> Sub(s[i], t[i])]
SeriesMul(s, t) == [i \in 1..Len(s) |-> Mul(s[i], t[i])]
SeriesDiv(s, t) == [i \in 1..Len(s) |-> Div(s[i], t[i])]

\* Series.fill_null(v)
FillNull(s, v) == [i \in 1..Len(s) |-> IF IsNull(s[i]) THEN v ELSE s[i]]

\* Series.diff(): null first, then s[i] - s[i-1].
Diff(s) == [i \in 1..Len(s) |-> IF i = 1 THEN Null ELSE Sub(s[i], s[i - 1])]

RECURSIVE SumTo(_, _)
SumTo(s, i) == IF i = 0 THEN Num(0) ELSE Add(SumTo(s, i - 1), s[i])

RECURSIVE ProdTo(_, _)
ProdTo(s, i) == IF i = 0 THEN Num(1) ELSE Mul(ProdTo(s, i - 1), s[i])

\* A running sum where the running product belongs.
CumSum(s) == [i \in 1..Len(s) |-> SumTo(s, i)]

\* Series.cum_prod()
CumProd(s) == [i \in 1..Len(s) |-> ProdTo(s, i)]

\* The larger of two values; a NaN poisons the running maximum (every row
\* at or after a NaN equity value has a NaN equity value itself, so the
\* drawdown of those rows is NaN whichever way cum_max treats NaN).
Max2(a, b) == IF IsNaN(a) \/ IsNaN(b) THEN NaN ELSE IF Lt(a, b) THEN b ELSE a

RECURSIVE MaxTo(_, _)
MaxTo(s, i) == IF i = 1 THEN s[1] ELSE Max2(MaxTo(s, i - 1), s[i])

\* Series.cum_max()
CumMax(s) == [i \in 1..Len(s) |-> MaxTo(s, i)]

\* Series.mean(): None on an empty series, NaN if any value is NaN.
Mean(s) == IF Len(s) = 0 THEN Null ELSE Div(SumTo(s, Len(s)), Num(Len(s)))

\* Series.var(ddof=1): None when there are not more than ddof values.
\* Series.std() is its square root, so std is null / NaN / zero exactly
\* when this is.
Var(s) ==
  IF Len(s) <= 1 THEN Null
  ELSE LET m == Mean(s)
           sq == [i \in 1..Len(s) |-> Mul(Sub(s[i], m), Sub(s[i], m))]
       IN Div(SumTo(sq, Len(s)), Num(Len(s) - 1))

\* Series.min(): NaN values are ignored unless every value is NaN; None on
\* an empty series.
SeriesMin(s) ==
  IF Len(s) = 0 THEN Null
  ELSE LET real == {i \in 1..Len(s) : ~IsNaN(s[i])}
       IN IF real = {} THEN NaN
          ELSE s[CHOOSE i \in real : \A j \in real : Le(s[i], s[j])]

\* Series.sum()
SeriesSum(s) == SumTo(s, Len(s))

\* rolling_mean(window_size=w, min_periods=1): the mean of the last
\* min(w, i) values.
RollingMean(s, w) ==
  [i \in 1..Len(s) |->
     LET lo == IF i - w + 1 < 1 THEN 1 ELSE i - w + 1
     IN Mean(SubSeq(s, lo, i))]

\* rolling_std(window_size=w, min_periods=1), squared.  A window holding a
\* single value has no sample deviation: polars gives 0.0 or null there,
\* depending on the build.
RollingVar(s, w, build) ==
  [i \in 1..Len(s) |->
     LET lo == IF i - w + 1 < 1 THEN 1 ELSE i - w + 1
     IN IF lo = i THEN (IF build.std_of_one = "zero" THEN Num(0) ELSE Null)
        ELSE Var(SubSeq(s, lo, i))]

\* Expr.forward_fill(): a null takes the last non-null value before it.
RECURSIVE ForwardFillAt(_, _)
ForwardFillAt(s, i) ==
  IF ~IsNull(s[i]) \/ i = 1 THEN s[i] ELSE ForwardFillAt(s, i - 1)

ForwardFill(s) == [i \in 1..Len(s) |-> ForwardFillAt(s, i)]

\* x |-> sgn(x) * x^2, strictly increasing: a quantity that holds a square
\* root (a z-score, a Sharpe ratio) is kept as its signed square, which has
\* the same order and the same equalities.
SignedSquare(a) == IF Sign(a) < 0 THEN Neg(Mul(a, a)) ELSE Mul(a, a)

\* ------------------------------------------------------------ data frames
\* A DataFrame is a function from its column names to equally long columns.
Columns(df) == DOMAIN df
Height(df) == IF DOMAIN df = {} THEN 0 ELSE Len(df[CHOOSE c \in DOMAIN df : TRUE])
IsEmpty(df) == Height(df) = 0
Dates(n) == [i \in 1..n |-> i]
\* DataFrame.with_columns: new columns replace those of the same name.
WithColumns(df, new) == new @@ df
NoFrame == [none |-> << >>]

Ok(df) == [err |-> "none", df |-> df]
Raise(e) == [err |-> e, df |-> NoFrame]

\* -------------------------------------------------------------- strategies
BuyAndHoldKind == "Buy and Hold"
MovingAverageKind == "Moving Average Crossover"
PairsKind == "Pairs Trading"
MeanReversionKind == "Mean Reversion"
MockHoldingKind == "Mock Holding"
\* Any other implementation of BaseStrategy: generate_signals returns the
\* frame it likes.
StubKind == "Stub"

\* The empty frame every generate_signals returns for empty input
\* (BuyAndHoldStrategy has no moving-average columns).
EmptySignals(cols) == [c \in cols |-> << >>]

\* positions as the other strategies compute it: signal.diff().fill_null(0).
BuyAndHoldSignalsDiff(prices) ==
  IF IsEmpty(prices) THEN Ok(EmptySignals({"Date", "Close", "signal", "positions"}))
  ELSE IF ~({"Date", "Close"} \subseteq Columns(prices)) THEN Raise("ColumnNotFoundError")
  ELSE Ok([Date |-> prices.Date, Close |-> prices.Close,
           signal |-> [i \in 1..Height(prices) |-> Num(1)],
           positions |-> FillNull(Diff([i \in 1..Height(prices) |-> Num(1)]), Num(0))])

\* BuyAndHoldStrategy.generate_signals
BuyAndHoldSignals(prices) ==
  IF IsEmpty(prices) THEN Ok(EmptySignals({"Date", "Close", "signal", "positions"}))
  ELSE IF ~({"Date", "Close"} \subseteq Columns(prices)) THEN Raise("ColumnNotFoundError")
  ELSE Ok([Date |-> prices.Date, Close |-> prices.Close,
           signal |-> [i \in 1..Height(prices) |-> Num(1)],
           positions |-> [i \in 1..Height(prices) |-> Num(1)]])

\* The crossover test as >=.
MovingAverageSignalsOrEqual(params, prices) ==
  IF IsEmpty(prices)
  THEN Ok(EmptySignals({"Date", "Close", "short_mavg", "long_mavg", "signal", "positions"}))
  ELSE IF ~({"Date", "Close"} \subseteq Columns(prices)) THEN Raise("ColumnNotFoundError")
  ELSE LET short_mavg == RollingMean(prices.Close, params.short_window)
           long_mavg == RollingMean(prices.Close, params.long_window)
           signal == [i \in 1..Height(prices) |->
                        IF Ge(short_mavg[i], long_mavg[i]) THEN Num(1) ELSE Num(0)]
       IN Ok([Date |-> prices.Date, Close |-> prices.Close,
              short_mavg |-> short_mavg, long_mavg |-> long_mavg,
              signal |-> signal,
              positions |-> FillNull(Diff(signal), Num(0))])

\* MovingAverageCrossoverStrategy.generate_signals
MovingAverageSignals(params, prices) ==
  IF IsEmpty(prices)
  THEN Ok(EmptySignals({"Date", "Close", "short_mavg", "long_mavg", "signal", "positions"}))
  ELSE IF ~({"Date", "Close"} \subseteq Columns(prices)) THEN Raise("ColumnNotFoundError")
  ELSE LET short_mavg == RollingMean(prices.Close, params.short_window)
           long_mavg == RollingMean(prices.Close, params.long_window)
           signal == [i \in 1..Height(prices) |->
                        IF Gt(short_mavg[i], long_mavg[i]) THEN Num(1) ELSE Num(0)]
       IN Ok([Date |-> prices.Date, Close |-> prices.Close,
              short_mavg |-> short_mavg, long_mavg |-> long_mavg,
              signal |-> signal,
              positions |-> FillNull(Diff(signal), Num(0))])

\* The std column of the mean reversion strategy, squared: 0 replaced by
\* NaN (null == 0 is null, which selects the otherwise branch).
StdOrNaN(var) == IF IsZero(var) THEN NaN ELSE var

\* std_dev * std as its signed square: the distance of a band from the mean.
BandOffset(std_dev, var) == Mul(SignedSquare(std_dev), var)

\* Close < lower_band, lower_band = mean - offset: null is no match; a NaN
\* band is above every price in a build that orders NaN, and compares false
\* otherwise.
BelowLowerBand(close, mean, offset, build) ==
  IF IsNull(offset) \/ IsNull(mean) THEN FALSE
  ELSE IF IsNaN(offset) THEN build.nan_order = "total"
  ELSE Lt(SignedSquare(Sub(close, mean)), Neg(offset))

\* Close > upper_band, upper_band = mean + offset: never with a NaN band.
AboveUpperBand(close, mean, offset) ==
  IF IsNull(offset) \/ IsNull(mean) \/ IsNaN(offset) THEN FALSE
  ELSE Gt(SignedSquare(Sub(close, mean)), offset)

\* MeanReversionStrategy.generate_signals.  A band is kept as [mean, offset]
\* (the band is mean + or - the root of offset).
MeanReversionSignals(params, prices, build) ==
  IF IsEmpty(prices)
  THEN Ok(EmptySignals({"Date", "Close", "short_mavg", "long_mavg", "signal", "positions"}))
  ELSE IF ~({"Date", "Close"} \subseteq Columns(prices)) THEN Raise("ColumnNotFoundError")
  ELSE LET mean == RollingMean(prices.Close, params.window)
           raw_std == RollingVar(prices.Close, params.window, build)
           std == [i \in 1..Height(prices) |-> StdOrNaN(raw_std[i])]
           offset == [i \in 1..Height(prices) |-> BandOffset(params.std_dev, std[i])]
           signal == [i \in 1..Height(prices) |->
                        IF BelowLowerBand(prices.Close[i], mean[i], offset[i], build)
                        THEN Num(1)
                        ELSE IF AboveUpperBand(prices.Close[i], mean[i], offset[i])
                        THEN Num(-1) ELSE Num(0)]
       IN Ok([Date |-> prices.Date, Close |-> prices.Close,
              mean |-> mean, std |-> std,
              upper_band |-> [i \in 1..Height(prices) |->
                                [mean |-> mean[i], offset |-> offset[i]]],
              lower_band |-> [i \in 1..Height(prices) |->
                                [mean |-> mean[i], offset |-> Neg(offset[i])]],
              signal |-> signal,
              positions |-> FillNull(Diff(signal), Num(0))])

\* The holding strategy of test_returns_captured_while_holding_position:
\* the signal column is given, positions = signal.diff() with the first
\* value 0.
MockHoldingSignals(params, prices) ==
  IF ~({"Date", "Close"} \subseteq Columns(prices)) THEN Raise("ColumnNotFoundError")
  ELSE IF Len(params.signals) # Height(prices) THEN Raise("ShapeError")
  ELSE Ok([Date |-> prices.Date, Close |-> prices.Close,
           signal |-> params.signals,
           positions |-> FillNull(Diff(params.signals), Num(0))])

\* The division made on every row.
ZScoreUnguarded(spread, spread_mean, spread_var) ==
  LET dev == Sub(spread, spread_mean)
      sq == Div(Mul(dev, dev), spread_var)
  IN IF IsNaN(sq) \/ IsNull(sq) THEN sq ELSE IF Sign(dev) < 0 THEN Neg(sq) ELSE sq

\* (spread - spread_mean) / spread_std where spread_std != 0, else 0; kept
\* as its signed square ((spread - mean)^2 / var with the sign of the
\* numerator).  A null spread_std makes the condition null, which selects
\* the otherwise branch.
ZScore(spread, spread_mean, spread_var) ==
  IF IsNull(spread_var) \/ IsZero(spread_var) THEN Num(0)
  ELSE LET dev == Sub(spread, spread_mean)
           sq == Div(Mul(dev, dev), spread_var)
       IN IF IsNaN(sq) THEN NaN ELSE IF Sign(dev) < 0 THEN Neg(sq) ELSE sq

\* The thresholds included: >= and <= for > and <.
PairsRawSignalOrEqual(z, entry_z_score, exit_z_score) ==
  IF Ge(z, SignedSquare(entry_z_score)) THEN Num(-1)
  ELSE IF Le(z, SignedSquare(Neg(entry_z_score))) THEN Num(1)
  ELSE IF Le((IF Sign(z) < 0 THEN Neg(z) ELSE z), SignedSquare(exit_z_score)) THEN Num(0)
  ELSE Null

\* The when/then chain of the pairs signal; null where no branch decides.
PairsRawSignal(z, entry_z_score, exit_z_score) ==
  IF Gt(z, SignedSquare(entry_z_score)) THEN Num(-1)
  ELSE IF Lt(z, SignedSquare(Neg(entry_z_score))) THEN Num(1)
  ELSE IF Lt((IF Sign(z) < 0 THEN Neg(z) ELSE z), SignedSquare(exit_z_score)) THEN Num(0)
  ELSE Null

\* The empty-input check made after the column check.
PairsSignalsColumnsFirst(params, prices, build) ==
  IF ~({"Close_1", "Close_2"} \subseteq Columns(prices))
  THEN Raise("ValueError: Data must contain 'Close_1' and 'Close_2' columns")
  ELSE Ok(EmptySignals({"Date", "Close", "short_mavg", "long_mavg", "signal", "positions"}))

\* PairsTradingStrategy.generate_signals
PairsSignals(params, prices, build) ==
  IF IsEmpty(prices)
  THEN Ok(EmptySignals({"Date", "Close", "short_mavg", "long_mavg", "signal", "positions"}))
  ELSE IF ~({"Close_1", "Close_2"} \subseteq Columns(prices))
  THEN Raise("ValueError: Data must contain 'Close_1' and 'Close_2' columns")
  ELSE IF "Date" \notin Columns(prices) THEN Raise("ColumnNotFoundError")
  ELSE LET spread == SeriesSub(prices.Close_1, prices.Close_2)
           spread_mean == RollingMean(spread, params.window)
           spread_std == RollingVar(spread, params.window, build)
           z_score == [i \in 1..Len(spread) |->
                         ZScore(spread[i], spread_mean[i], spread_std[i])]
           raw == [i \in 1..Len(spread) |->
                     PairsRawSignal(z_score[i], params.entry_z_score, params.exit_z_score)]
           signal == FillNull(ForwardFill(raw), Num(0))
       IN Ok([Date |-> prices.Date, Close_1 |-> prices.Close_1,
              Close_2 |-> prices.Close_2, spread |-> spread,
              spread_mean |-> spread_mean, spread_std |-> spread_std,
              z_score |-> z_score, signal |-> signal,
              positions |-> FillNull(Diff(signal), Num(0))])

\* strategy.generate_signals(prices), dispatched on the class of the strategy.
GenerateSignals(strat, prices, build) ==
  CASE strat.kind = BuyAndHoldKind -> BuyAndHoldSignals(prices)
    [] strat.kind = MovingAverageKind -> MovingAverageSignals(strat.params, prices)
    [] strat.kind = MeanReversionKind ->
         MeanReversionSignals(strat.params, prices, build)
    [] strat.kind = PairsKind -> PairsSignals(strat.params, prices, build)
    [] strat.kind = MockHoldingKind -> MockHoldingSignals(strat.params, prices)
    [] strat.kind = StubKind -> Ok(strat.params.signals)

\* -------------------------------------------------------------- backtester
\* The division dropped: the change of the price instead of its rate.
PctChangeUnscaled(close) == SeriesSub(close, Shift1(close))

\* (x - x.shift(1)) / x.shift(1)
PctChange(close) ==
  SeriesDiv(SeriesSub(close, Shift1(close)), Shift1(close))

\* The asset_returns series of Backtester._calculate_returns.
AssetReturns(prices) ==
  IF {"Close_1", "Close_2"} \subseteq Columns(prices)
  THEN SeriesSub(PctChange(prices.Close_1), PctChange(prices.Close_2))
  ELSE PctChange(prices.Close)

\* A lag dropped: positions * asset_returns, the same day's position.
LaggedProductNoShift(positions, asset_returns) ==
  SeriesMul(positions, asset_returns)

\* pl.col("positions").shift(1) * asset_returns
LaggedProduct(positions, asset_returns) ==
  SeriesMul(Shift1(positions), asset_returns)

\* The replacement without the fill: infinities and gaps stay null.
CleanReturnsUnfilled(s) ==
  [i \in 1..Len(s) |-> IF IsInf(s[i]) THEN Null ELSE s[i]]

\* .replace({inf: None, -inf: None}).fill_null(0)
CleanReturns(s) ==
  FillNull([i \in 1..Len(s) |-> IF IsInf(s[i]) THEN Null ELSE s[i]], Num(0))

\* The two schema checks in the other order.
CalculateReturnsCloseFirst(prices, signals, capital) ==
  IF ~({"Close_1", "Close_2"} \subseteq Columns(prices)) /\ "Close" \notin Columns(prices)
  THEN Raise("ValueError: Data does not contain required 'Close' columns")
  ELSE IF "Date" \notin Columns(signals)
  THEN Raise("ValueError: 'Date' column is missing from the signals DataFrame")
  ELSE IF "positions" \notin Columns(signals) THEN Raise("ColumnNotFoundError")
  ELSE IF Height(signals) # Height(prices) THEN Raise("ShapeError")
  ELSE LET asset_returns == AssetReturns(prices)
           strategy_returns == CleanReturns(LaggedProduct(signals.positions, asset_returns))
           cumulative_returns ==
             CumProd([i \in 1..Len(strategy_returns) |-> Add(Num(1), strategy_returns[i])])
       IN Ok(WithColumns(signals,
               [asset_returns |-> asset_returns,
                strategy_returns |-> strategy_returns,
                cumulative_returns |-> cumulative_returns,
                equity_curve |->
                  [i \in 1..Len(cumulative_returns) |->
                     Mul(Num(capital), cumulative_returns[i])]]))

\* Backtester._calculate_returns
CalculateReturns(prices, signals, capital) ==
  IF "Date" \notin Columns(signals)
  THEN Raise("ValueError: 'Date' column is missing from the signals DataFrame")
  ELSE IF ~({"Close_1", "Close_2"} \subseteq Columns(prices)) /\ "Close" \notin Columns(prices)
  THEN Raise("ValueError: Data does not contain required 'Close' columns")
  ELSE IF "positions" \notin Columns(signals) THEN Raise("ColumnNotFoundError")
  ELSE IF Height(signals) # Height(prices) THEN Raise("ShapeError")
  ELSE LET asset_returns == AssetReturns(prices)
           strategy_returns == CleanReturns(LaggedProduct(signals.positions, asset_returns))
           cumulative_returns ==
             CumProd([i \in 1..Len(strategy_returns) |-> Add(Num(1), strategy_returns[i])])
       IN Ok(WithColumns(signals,
               [asset_returns |-> asset_returns,
                strategy_returns |-> strategy_returns,
                cumulative_returns |-> cumulative_returns,
                equity_curve |->
                  [i \in 1..Len(cumulative_returns) |->
                     Mul(Num(capital), cumulative_returns[i])]]))

\* Backtester.run: the signals, then the returns; an exception of either
\* leaves self.results as it was.
\* Backtester.run after generate_signals has ended as signals.
ReturnsOf(prices, signals, capital) ==
  IF signals.err # "none" THEN signals
  ELSE CalculateReturns(prices, signals.df, capital)

RunResult(prices, strat, capital, build) ==
  ReturnsOf(prices, GenerateSignals(strat, prices, build), capital)

\* Python None, as the value of get_performance_metrics.
None == [None |-> TRUE]

\* (252**0.5) * returns_mean / returns_std, kept as its signed square
\* sgn(mean) * 252 * mean^2 / var.
SharpeRatio(returns_mean, returns_var) ==
  Div(Mul(Num(TradingDays), SignedSquare(returns_mean)), returns_var)

\* The "- 1" dropped: the ratio to the running peak instead of the loss.
DrawdownsRatio(equity_curve) ==
  LET peak == CumMax(equity_curve)
  IN [i \in 1..Len(equity_curve) |-> Div(equity_curve[i], peak[i])]

\* equity_curve / equity_curve.cum_max() - 1
Drawdowns(equity_curve) ==
  LET peak == CumMax(equity_curve)
  IN [i \in 1..Len(equity_curve) |-> Sub(Div(equity_curve[i], peak[i]), Num(1))]

MetricKeys == {"Total Return", "Sharpe Ratio", "Max Drawdown"}

\* Backtester.get_performance_metrics on self.results = res.
\*  - tail(1)[0] of an empty column raises IndexError;
\*  - std() of fewer than two values is None: None != 0 holds and
\*    pl.Series([None]).is_nan()[0] is either refused by polars or None, so
\*    the guard lets None through to the division, which raises
\*    ("StdIsNone": the exception class depends on the polars build).
GetPerformanceMetrics(res) ==
  IF res = NoFrame THEN [err |-> "none", val |-> None]
  ELSE IF Height(res) = 0 THEN [err |-> "IndexError", val |-> None]
  ELSE LET total_return == Sub(res.cumulative_returns[Height(res)], Num(1))
           returns_mean == Mean(res.strategy_returns)
           returns_var == Var(res.strategy_returns)
           sharpe_ratio == IF ~IsZero(returns_var) /\ ~IsNaN(returns_var)
                           THEN SharpeRatio(returns_mean, returns_var)
                           ELSE NaN
           max_drawdown == SeriesMin(Drawdowns(res.equity_curve))
       IN IF IsNull(returns_var) THEN [err |-> "StdIsNone", val |-> None]
          ELSE [err |-> "none",
                val |-> ("Total Return" :> total_return)
                        @@ ("Sharpe Ratio" :> sharpe_ratio)
                        @@ ("Max Drawdown" :> max_drawdown)]

\* The exceptions a failure stands for: dividing by a None deviation is
\* refused with TypeError or with InvalidOperationError, depending on the
\* polars build.
RaisedBy(err) ==
  IF err = "StdIsNone" THEN {"TypeError", "InvalidOperationError"} ELSE {err}

\* ------------------------------------------------- Backtester: the machine
\* Prices of the enumerated series: 0 (which makes the division artifacts
\* the backtester guards against) and 1, 3, 9, ... (a price can more than
\* double, so a short position can lose more than 100%).
Prices == {0} \cup {3 ^ i : i \in 0..MaxPriceLevel}

\* Single-instrument price series of 0..MaxRows rows.
SingleFrames ==
  UNION {{[Date |-> Dates(n), Close |-> [i \in 1..n |-> Num(c[i])]] :
            c \in [1..n -> Prices]} : n \in 0..MaxRows}

\* Price series of a pair, of 0..MaxPairRows rows: the first leg moves over
\* 1..MaxPairPrice, the second between 1 and 2.
PairFrames ==
  UNION {{[Date |-> Dates(n),
           Close_1 |-> [i \in 1..n |-> Num(c[i][1])],
           Close_2 |-> [i \in 1..n |-> Num(c[i][2])]] :
            c \in [1..n -> (1..MaxPairPrice) \X (1..2)]} :
         n \in 0..MaxPairRows}

\* The series of test_returns_captured_while_holding_position, in cents.
HoldingFixture ==
  [Date |-> Dates(5),
   Close |-> <<Num(10000), Num(11000), Num(12100), Num(13310), Num(11979)>>]
HoldingSignal == <<Num(0), Num(1), Num(1), Num(1), Num(0)>>

\* Frames without the price columns (test_backtester_with_invalid_data,
\* test_pairs_trading_strategy_with_invalid_data), empty or not.
InvalidFrames ==
  {[Date |-> Dates(2), Open |-> <<Num(1), Num(2)>>],
   [Date |-> Dates(2), Close_1 |-> <<Num(1), Num(2)>>],
   [Close_1 |-> <<Num(1), Num(2)>>, Close_3 |-> <<Num(1), Num(2)>>],
   [Date |-> << >>, Close_1 |-> << >>],
   [Open |-> << >>]}

DataSet == SingleFrames \cup InvalidFrames \cup {HoldingFixture}
PairDataSet == PairFrames \cup InvalidFrames

Windows == 1..MaxWindow

MockSignals(n) == {[i \in 1..n |-> Num(s[i])] : s \in [1..n -> {0, 1}]}

BuyAndHoldStrategies == {[kind |-> BuyAndHoldKind, params |-> << >>]}

MovingAverageStrategies ==
  {[kind |-> MovingAverageKind,
    params |-> [short_window |-> sw, long_window |-> lw]] :
     sw \in Windows, lw \in Windows}

PairsStrategies ==
  {[kind |-> PairsKind,
    params |-> [window |-> w, entry_z_score |-> e, exit_z_score |-> Rat(1, 2)]] :
     w \in Windows, e \in {Rat(1, 2), Num(1)}}

MeanReversionStrategies ==
  {[kind |-> MeanReversionKind, params |-> [window |-> w, std_dev |-> k]] :
     w \in Windows, k \in {Rat(1, 2), Num(1)}}

MockStrategiesFor(d) ==
  IF d = HoldingFixture
  THEN {[kind |-> MockHoldingKind, params |-> [signals |-> HoldingSignal]]}
  ELSE {[kind |-> MockHoldingKind, params |-> [signals |-> sg]] :
          sg \in MockSignals(Height(d))}

\* The single-instrument strategies a Backtester over d is built with.
StrategiesFor(d) ==
  IF d \in InvalidFrames \/ IsEmpty(d)
  THEN BuyAndHoldStrategies
       \cup {st \in MovingAverageStrategies : st.params.short_window = 1}
  ELSE BuyAndHoldStrategies \cup MovingAverageStrategies \cup MockStrategiesFor(d)

Capitals == {DefaultInitialCapital, 0, -DefaultInitialCapital}

\* The polars builds: what rolling_std gives for a one-value window (all a
\* pairs strategy depends on), and with it the order of NaN.
DefaultBuild == [std_of_one |-> "zero", nan_order |-> "total"]
PolarsBuilds == {[std_of_one |-> s, nan_order |-> "total"] : s \in {"zero", "null"}}
AllPolarsBuilds == [std_of_one : {"zero", "null"}, nan_order : {"ieee", "total"}]

\* No call of optimise_strategy_params is in progress.
OptIdle ==
  /\ opt_data = NoFrame /\ strategy_type = "" /\ parameter_ranges = << >>
  /\ opt_i = 0 /\ best_params = None /\ best_metrics = None
  /\ best_sharpe_ratio = NInf /\ evaluated = << >>
  /\ opt_ret = [status |-> "idle"]

\* No call of run_backtest is in progress.
RbIdle ==
  /\ rb_data = NoFrame /\ rb_type = "" /\ rb_params = << >>
  /\ rb_pc = "idle" /\ rb_strategy = None /\ rb_ret = [status |-> "idle"]

\* None where a ticker is expected (the tickers are numbered from 1).
NoTicker == 0

\* No call of optimise_buy_and_hold_ticker is in progress.
BhIdle ==
  /\ bh_i = 0 /\ bh_best_ticker = NoTicker /\ bh_best_metrics = None
  /\ bh_best_total_return = NInf /\ bh_evaluated = << >>
  /\ bh_ret = [status |-> "idle"]

\* No ticker list has been handed over.
YfIdle == top_companies = << >> /\ yf_closes = << >>

\* No call of optimise_pairs_trading_tickers is in progress.
PtIdle ==
  /\ long_names = << >> /\ pt_strategy_params = << >> /\ pt_optimise = FALSE
  /\ ticker_pairs = << >> /\ pt_i = 0
  /\ pt_best_pair = << >> /\ pt_best_params = None /\ pt_best_metrics = None
  /\ pt_best_sharpe_ratio = NInf /\ pt_evaluated = << >>
  /\ pt_ret = [status |-> "idle"]

TickersIdle == YfIdle /\ BhIdle /\ PtIdle

CallsIdle == RbIdle /\ TickersIdle

\* No call of get_top_sp500_companies is in progress.
RankIdle ==
  /\ tickers = << >> /\ info = << >> /\ num_companies = 0 /\ pending = {}
  /\ sp500_companies = << >> /\ rank_ret = [status |-> "idle"]

\* Backtester.__init__ with the default initial_capital.
BtInit ==
  /\ OptIdle /\ RankIdle /\ CallsIdle
  /\ data \in DataSet
  /\ strategy \in StrategiesFor(data)
  /\ polars_build = DefaultBuild
  /\ initial_capital = DefaultInitialCapital
  /\ results = NoFrame
  /\ ret = [op |-> "init", err |-> "none", val |-> None]
  /\ completed = FALSE

\* Backtester.__init__ with a PairsTradingStrategy, under either polars
\* build.
BtInitPairs ==
  /\ OptIdle /\ RankIdle /\ CallsIdle
  /\ data \in PairDataSet
  /\ strategy \in PairsStrategies
  /\ polars_build \in PolarsBuilds
  /\ initial_capital = DefaultInitialCapital
  /\ results = NoFrame
  /\ ret = [op |-> "init", err |-> "none", val |-> None]
  /\ completed = FALSE

\* Backtester.__init__ with initial_capital given, over the
\* single-instrument series.
BtInitCapital ==
  /\ OptIdle /\ RankIdle /\ CallsIdle
  /\ data \in SingleFrames
  /\ strategy \in BuyAndHoldStrategies \cup MockStrategiesFor(data)
  /\ polars_build = DefaultBuild
  /\ initial_capital \in Capitals
  /\ results = NoFrame
  /\ ret = [op |-> "init", err |-> "none", val |-> None]
  /\ completed = FALSE

\* Backtester.run has ended as r: self.results is assigned on return only.
RunEnded(r) ==
  /\ results' = IF r.err = "none" THEN r.df ELSE results
  /\ ret' = [op |-> "run", err |-> r.err, val |-> None]
  /\ completed' = (completed \/ r.err = "none")

\* Backtester.run
Run ==
  /\ RunEnded(RunResult(data, strategy, initial_capital, polars_build))
  /\ UNCHANGED <<data, strategy, initial_capital, polars_build, optVars, rankVars, callVars>>

\* Backtester.get_performance_metrics
GetMetrics ==
  LET m == GetPerformanceMetrics(results)
  IN /\ \E e \in RaisedBy(m.err) :
          ret' = [op |-> "get_performance_metrics", err |-> e, val |-> m.val]
     /\ UNCHANGED <<data, strategy, initial_capital, results, completed, polars_build, optVars, rankVars, callVars>>

\* strategy.generate_signals(data), called on the strategy itself.
Generate ==
  LET g == GenerateSignals(strategy, data, polars_build)
  IN /\ ret' = [op |-> "generate_signals", err |-> g.err, val |-> g.df]
     /\ UNCHANGED <<data, strategy, initial_capital, results, completed, polars_build, optVars, rankVars, callVars>>

BtNext == Run \/ GetMetrics \/ Generate

\* A Backtester over a single instrument (initial_capital defaulted).
Spec == BtInit /\ [][BtNext]_vars

\* A Backtester over a pair.
SpecPairs == BtInitPairs /\ [][BtNext]_vars

\* Frames of at most MaxBacktestRows rows, and those without price columns.
SchemaFrames ==
  {d \in SingleFrames \cup PairFrames : Height(d) <= MaxBacktestRows}
  \cup InvalidFrames

\* Implementations of BaseStrategy whose signals have or lack the Date and
\* the positions column.
StubStrategiesFor(d) ==
  LET ones == [i \in 1..Height(d) |-> Num(1)]
  IN {[kind |-> StubKind, params |-> [signals |-> sg]] :
        sg \in {[Date |-> Dates(Height(d)), signal |-> ones, positions |-> ones],
                [signal |-> ones, positions |-> ones],
                [Date |-> Dates(Height(d)), signal |-> ones]}}

\* A Backtester over any frame, with a strategy of the library or another.
BtInitSchema ==
  /\ OptIdle /\ RankIdle /\ CallsIdle
  /\ data \in SchemaFrames
  /\ strategy \in BuyAndHoldStrategies \cup MeanReversionStrategies
                  \cup PairsStrategies \cup StubStrategiesFor(data)
  /\ polars_build = DefaultBuild
  /\ initial_capital = DefaultInitialCapital
  /\ results = NoFrame
  /\ ret = [op |-> "init", err |-> "none", val |-> None]
  /\ completed = FALSE

SpecSchema == BtInitSchema /\ [][BtNext]_vars

\* The strategy variants and the price series each is given.
StrategyInputs ==
  {[data |-> d, strategy |-> st] :
     d \in SingleFrames \cup InvalidFrames,
     st \in BuyAndHoldStrategies \cup MovingAverageStrategies
            \cup MeanReversionStrategies}
  \cup {[data |-> d, strategy |-> st] : d \in PairDataSet, st \in PairsStrategies}

\* The builds that make a difference to a strategy: those that call
\* rolling_std.
BuildsFor(st) ==
  IF st.kind \in {MeanReversionKind, PairsKind} THEN AllPolarsBuilds
  ELSE {DefaultBuild}

\* Pairs long enough for a signal to be entered, held and left: one row and
\* one price more than PairFrames, windows up to MaxWindow + 1. The z-score
\* is the same for every constant Close_2, so Close_2 is held at 1 and the
\* spread moves with Close_1.
ScanFrames ==
  UNION {{[Date |-> Dates(n),
           Close_1 |-> [i \in 1..n |-> Num(c[i])],
           Close_2 |-> [i \in 1..n |-> Num(1)]] :
            c \in [1..n -> 1..(MaxPairPrice + 1)]} :
         n \in 1..(MaxPairRows + 1)}

\* Thresholds with exit below entry, and the other way round.
ScanStrategies ==
  {[kind |-> PairsKind,
    params |-> [window |-> w, entry_z_score |-> z[1], exit_z_score |-> z[2]]] :
     w \in 1..(MaxWindow + 1),
     z \in {<<Rat(3, 5), Rat(1, 2)>>, <<Num(1), Rat(1, 2)>>, <<Rat(1, 2), Num(1)>>}}

\* A pairs strategy constructed, no Backtester around it.
ScanInit ==
  /\ OptIdle /\ RankIdle /\ CallsIdle
  /\ data \in ScanFrames
  /\ strategy \in ScanStrategies
  /\ polars_build \in PolarsBuilds
  /\ initial_capital = DefaultInitialCapital
  /\ results = NoFrame
  /\ ret = [op |-> "init", err |-> "none", val |-> None]
  /\ completed = FALSE

\* generate_signals of the pairs strategy.
SpecPairsScan == ScanInit /\ [][Generate]_vars

\* A strategy constructed, no Backtester around it.
StrategyInit ==
  /\ OptIdle /\ RankIdle /\ CallsIdle
  /\ \E input \in StrategyInputs : data = input.data /\ strategy = input.strategy
  /\ polars_build \in BuildsFor(strategy)
  /\ initial_capital = DefaultInitialCapital
  /\ results = NoFrame
  /\ ret = [op |-> "init", err |-> "none", val |-> None]
  /\ completed = FALSE

StrategyNext == Generate

\* generate_signals of the four strategy variants.
SpecStrategies == StrategyInit /\ [][StrategyNext]_vars

\* The inputs of test_backtester_with_insufficient_data_all_strategies and
\* their like: two rows of positive prices, and the three strategies that
\* look at a window, with any parameters.
InsufficientInputs ==
  {[data |-> d, strategy |-> st] :
     d \in {f \in SingleFrames :
              Height(f) = 2 /\ \A i \in 1..2 : Gt(f.Close[i], Num(0))},
     st \in MovingAverageStrategies \cup MeanReversionStrategies}
  \cup {[data |-> d, strategy |-> st] :
          d \in {f \in PairFrames : Height(f) = 2}, st \in PairsStrategies}

\* A Backtester over two rows.
BtInitInsufficient ==
  /\ OptIdle /\ RankIdle /\ CallsIdle
  /\ \E input \in InsufficientInputs :
       data = input.data /\ strategy = input.strategy
  /\ polars_build \in BuildsFor(strategy)
  /\ initial_capital = DefaultInitialCapital
  /\ results = NoFrame
  /\ ret = [op |-> "init", err |-> "none", val |-> None]
  /\ completed = FALSE

SpecInsufficient == BtInitInsufficient /\ [][BtNext]_vars

\* A Backtester with any initial_capital.
SpecCapital == BtInitCapital /\ [][BtNext]_vars

\* ---------------------------------------------------------------- optimiser
TRADING_STRATEGIES ==
  {BuyAndHoldKind, MovingAverageKind, MeanReversionKind, PairsKind}

\* The keys the constructor of a strategy class reads from its params.
ConstructorKeys(kind) ==
  CASE kind = MovingAverageKind -> {"short_window", "long_window"}
    [] kind = MeanReversionKind -> {"window", "std_dev"}
    [] kind = PairsKind -> {"window", "entry_z_score", "exit_z_score"}
    [] OTHER -> {}

\* Membership of the known types by the wrong sense.
CreateStrategyKnownRejected(type, strategy_params) ==
  IF type \in TRADING_STRATEGIES
  THEN [err |-> "ValueError: Invalid strategy type", strategy |-> None]
  ELSE [err |-> "none", strategy |-> [kind |-> type, params |-> strategy_params]]

\* create_strategy
CreateStrategy(type, strategy_params) ==
  IF type \notin TRADING_STRATEGIES
  THEN [err |-> "ValueError: Invalid strategy type", strategy |-> None]
  ELSE IF ~(ConstructorKeys(type) \subseteq DOMAIN strategy_params)
  THEN [err |-> "KeyError", strategy |-> None]
  ELSE [err |-> "none", strategy |-> [kind |-> type, params |-> strategy_params]]

\* run_backtest after backtester.get_performance_metrics() = m: the assert.
BacktestMetrics(m) ==
  IF m.err # "none" THEN {[err |-> e, metrics |-> None] : e \in RaisedBy(m.err)}
  ELSE IF m.val = None THEN {[err |-> "AssertionError", metrics |-> None]}
  ELSE {[err |-> "none", metrics |-> m.val]}

\* run_backtest after backtester.run() = r.
BacktestRun(r) ==
  IF r.err # "none" THEN {[err |-> r.err, metrics |-> None]}
  ELSE BacktestMetrics(GetPerformanceMetrics(r.df))

\* run_backtest after create_strategy = c.
BacktestStrategy(c, prices, build) ==
  IF c.err # "none" THEN {[err |-> c.err, metrics |-> None]}
  ELSE BacktestRun(RunResult(prices, c.strategy, DefaultInitialCapital, build))

\* A backtest that carries state over from the candidates before it: the
\* strategy of the best candidate so far is used again.
RunBacktestStale(prices, type, strategy_params, build) ==
  BacktestStrategy(CreateStrategy(type, IF best_params # None THEN best_params
                                        ELSE strategy_params),
                   prices, build)

\* run_backtest: the ways the call can end, [err, metrics].
RunBacktest(prices, type, strategy_params, build) ==
  BacktestStrategy(CreateStrategy(type, strategy_params), prices, build)

\* itertools.product(*values): the last position varies fastest.
RECURSIVE Product(_)
Product(values) ==
  IF values = << >> THEN << << >> >>
  ELSE LET first == Head(values)
           rest == Product(Tail(values))
       IN [k \in 1..(Len(first) * Len(rest)) |->
             <<first[((k - 1) \div Len(rest)) + 1]>> \o rest[((k - 1) % Len(rest)) + 1]]

\* dict(zip(param_names, params))
ZipParams(ranges, combination) ==
  [name \in {ranges[j].name : j \in 1..Len(ranges)} |->
     combination[CHOOSE j \in 1..Len(ranges) : ranges[j].name = name]]

\* param_combinations, each as the dict run_backtest is given.
ParamCombinations(ranges) ==
  LET combinations == Product([j \in 1..Len(ranges) |-> ranges[j].values])
  IN [k \in 1..Len(combinations) |-> ZipParams(ranges, combinations[k])]

\* Replacement on ties as well.
ImprovesOrTies(sharpe_ratio, best) == Ge(sharpe_ratio, best)

\* Replacement by a Sharpe ratio that is NaN as well.
ImprovesOrNaN(sharpe_ratio, best) == Gt(sharpe_ratio, best) \/ IsNaN(sharpe_ratio)

\* metrics["Sharpe Ratio"] > best_sharpe_ratio
Improves(sharpe_ratio, best) == Gt(sharpe_ratio, best)

\* The final check left out.
NoWinnerIgnored(params, metrics) == FALSE

\* not best_params or not best_metrics: None and the empty dict are falsy.
NoWinner(params, metrics) ==
  params = None \/ DOMAIN params = {} \/ metrics = None

OptimisationFailed == "ValueError: Parameter optimisation failed"

\* The inputs of the enumerated calls.
OptFrames == SingleFrames \cup {[Date |-> Dates(2), Open |-> <<Num(1), Num(3)>>]}
OptTypes == {BuyAndHoldKind, MovingAverageKind, "Momentum"}
WindowRange == [i \in 1..MaxWindow |-> i]
OptRanges ==
  {<< >>,
   <<[name |-> "short_window", values |-> WindowRange],
     [name |-> "long_window", values |-> WindowRange]>>,
   <<[name |-> "short_window", values |-> << >>],
     [name |-> "long_window", values |-> WindowRange]>>,
   <<[name |-> "short_window", values |-> WindowRange]>>}

\* No Backtester outside the optimiser.
BtIdle ==
  /\ data = NoFrame /\ strategy = None /\ initial_capital = DefaultInitialCapital
  /\ results = NoFrame /\ completed = FALSE
  /\ ret = [op |-> "init", err |-> "none", val |-> None]

\* optimise_strategy_params entered: lines 150-152.
OptInit ==
  /\ BtIdle /\ RankIdle /\ CallsIdle
  /\ polars_build = DefaultBuild
  /\ opt_data \in OptFrames
  /\ strategy_type \in OptTypes
  /\ parameter_ranges \in OptRanges
  /\ opt_i = 0
  /\ best_params = None
  /\ best_metrics = None
  /\ best_sharpe_ratio = NInf
  /\ evaluated = << >>
  /\ opt_ret = [status |-> "running"]

\* One pass of the loop over param_combinations: run_backtest, which may
\* raise out of the function, then the comparison.
Evaluate ==
  /\ opt_ret.status = "running"
  /\ opt_i < Len(ParamCombinations(parameter_ranges))
  /\ LET current_params == ParamCombinations(parameter_ranges)[opt_i + 1]
     IN \E b \in RunBacktest(opt_data, strategy_type, current_params, polars_build) :
          IF b.err # "none"
          THEN /\ opt_ret' = [status |-> "raised", err |-> b.err]
               /\ UNCHANGED <<opt_i, best_params, best_metrics, best_sharpe_ratio, evaluated>>
          ELSE /\ opt_i' = opt_i + 1
               /\ evaluated' = Append(evaluated,
                    [params |-> current_params, sharpe |-> b.metrics["Sharpe Ratio"]])
               /\ IF Improves(b.metrics["Sharpe Ratio"], best_sharpe_ratio)
                  THEN /\ best_sharpe_ratio' = b.metrics["Sharpe Ratio"]
                       /\ best_params' = current_params
                       /\ best_metrics' = b.metrics
                  ELSE UNCHANGED <<best_params, best_metrics, best_sharpe_ratio>>
               /\ UNCHANGED opt_ret
  /\ UNCHANGED <<btVars, rankVars, callVars, opt_data, strategy_type, parameter_ranges>>

\* After the loop: lines 182-185.
Finish ==
  /\ opt_ret.status = "running"
  /\ opt_i = Len(ParamCombinations(parameter_ranges))
  /\ opt_ret' = IF NoWinner(best_params, best_metrics)
                THEN [status |-> "raised", err |-> OptimisationFailed]
                ELSE [status |-> "returned", params |-> best_params,
                      metrics |-> best_metrics]
  /\ UNCHANGED <<btVars, rankVars, callVars, opt_data, strategy_type, parameter_ranges, opt_i,
                 best_params, best_metrics, best_sharpe_ratio, evaluated>>

OptNext == Evaluate \/ Finish

\* A call of optimise_strategy_params.
SpecOptimiser == OptInit /\ [][OptNext]_vars

\* ------------------------------------------------------------------ ranking
\* get_ticker_market_cap(ticker) as a task of the executor, given what
\* yf.Ticker(ticker).info does: the exception is kept in the future.
GetTickerMarketCap(ticker, ticker_info) ==
  IF ticker_info.raises THEN [raised |-> TRUE, val |-> None]
  ELSE [raised |-> FALSE, val |-> <<ticker, ticker_info.marketCap>>]

\* Insert x behind every company whose market cap is >= its own.
RECURSIVE InsertByCap(_, _)
InsertByCap(companies, x) ==
  IF companies = << >> THEN <<x>>
  ELSE IF Ge(companies[Len(companies)][2], x[2]) THEN Append(companies, x)
  ELSE Append(InsertByCap(SubSeq(companies, 1, Len(companies) - 1), x),
              companies[Len(companies)])

\* The list left as collected.
Unsorted(companies) == companies

\* sorted(sp500_companies, key=lambda x: x[1], reverse=True): descending,
\* and stable (companies of equal market cap keep their order).
RECURSIVE SortedCompanies(_)
SortedCompanies(companies) ==
  IF companies = << >> THEN << >>
  ELSE InsertByCap(SortedCompanies(SubSeq(companies, 1, Len(companies) - 1)),
                   companies[Len(companies)])

\* The plain slice sorted_companies[:num_companies], whatever the sign of
\* num_companies.
TopCompaniesSliced(sorted_companies, num) ==
  SubSeq(sorted_companies, 1,
         IF num >= Len(sorted_companies) THEN Len(sorted_companies)
         ELSE IF num >= 0 THEN num
         ELSE IF Len(sorted_companies) + num >= 0 THEN Len(sorted_companies) + num
         ELSE 0)

\* sorted_companies[:num_companies] if num_companies > 0 else sorted_companies
TopCompanies(sorted_companies, num) ==
  IF num > 0
  THEN SubSeq(sorted_companies, 1,
              IF num < Len(sorted_companies) THEN num ELSE Len(sorted_companies))
  ELSE sorted_companies

\* The constituents enumerated, and what the lookup of one can do.
Tickers == [i \in 1..MaxTickers |-> i]
Infos ==
  {[raises |-> TRUE, marketCap |-> None], [raises |-> FALSE, marketCap |-> None]}
  \cup {[raises |-> FALSE, marketCap |-> Num(c)] : c \in 1..MaxCap}

\* get_top_sp500_companies entered, every lookup submitted.
RankInit ==
  /\ BtIdle /\ OptIdle /\ CallsIdle
  /\ polars_build = DefaultBuild
  /\ tickers = Tickers
  /\ info \in [1..MaxTickers -> Infos]
  /\ num_companies \in -1..2
  /\ pending = {tickers[i] : i \in 1..Len(tickers)}
  /\ sp500_companies = << >>
  /\ rank_ret = [status |-> "running"]

\* One pass of the loop over as_completed, which yields the futures in the
\* order they finish: future.result() raises what the task raised.
Collect(ticker) ==
  /\ rank_ret.status = "running"
  /\ ticker \in pending
  /\ pending' = pending \ {ticker}
  /\ LET result == GetTickerMarketCap(ticker, info[ticker])
     IN IF result.raised
        THEN /\ rank_ret' = [status |-> "raised", val |-> << >>]
             /\ UNCHANGED sp500_companies
        ELSE /\ sp500_companies' =
                  IF result.val[2] # None THEN Append(sp500_companies, result.val)
                  ELSE sp500_companies
             /\ UNCHANGED rank_ret
  /\ UNCHANGED <<btVars, optVars, callVars, tickers, info, num_companies>>

\* After the loop: sort, truncate, return.
RankReturn ==
  /\ rank_ret.status = "running"
  /\ pending = {}
  /\ rank_ret' = [status |-> "returned",
                  val |-> TopCompanies(SortedCompanies(sp500_companies), num_companies)]
  /\ UNCHANGED <<btVars, optVars, callVars, tickers, info, num_companies, pending, sp500_companies>>

RankNext == (\E ticker \in pending : Collect(ticker)) \/ RankReturn

\* A call of get_top_sp500_companies.
SpecRanking == RankInit /\ [][RankNext]_vars

\* ------------------------------------------------------------ run_backtest
RbFrames ==
  {d \in SingleFrames \cup PairFrames : Height(d) <= MaxBacktestRows}
  \cup InvalidFrames

\* Strategy types asked for: the four of TRADING_STRATEGIES and two others.
RbTypes == TRADING_STRATEGIES \cup {"Invalid Strategy", "Momentum"}

\* strategy_params: those of each strategy class, with and without a key
\* the constructor reads.
RbParams ==
  {<< >>,
   [short_window |-> 1, long_window |-> MaxWindow],
   [window |-> 1, std_dev |-> Num(1)],
   [window |-> 1, entry_z_score |-> Num(1), exit_z_score |-> Rat(1, 2)],
   [window |-> 1]}

\* run_backtest entered.
RbInit ==
  /\ BtIdle /\ OptIdle /\ RankIdle /\ TickersIdle
  /\ polars_build \in AllPolarsBuilds
  /\ rb_data \in RbFrames
  /\ rb_type \in RbTypes
  /\ rb_params \in RbParams
  /\ rb_pc = "create_strategy"
  /\ rb_strategy = None
  /\ rb_ret = [status |-> "running"]

\* An exception leaves run_backtest.
RbRaised(e) == [status |-> "raised", err |-> e, metrics |-> None]

\* line 284: strategy = create_strategy(strategy_type, strategy_params)
RbCreateStrategy ==
  /\ rb_pc = "create_strategy"
  /\ LET c == CreateStrategy(rb_type, rb_params)
     IN IF c.err # "none"
        THEN /\ rb_pc' = "done"
             /\ rb_ret' = RbRaised(c.err)
             /\ UNCHANGED rb_strategy
        ELSE /\ rb_pc' = "Backtester"
             /\ rb_strategy' = c.strategy
             /\ UNCHANGED rb_ret
  /\ UNCHANGED <<btVars, optVars, rankVars, tickerVars, rb_data, rb_type, rb_params>>

\* line 285: backtester = Backtester(data, strategy)
RbBacktester ==
  /\ rb_pc = "Backtester"
  /\ data' = rb_data
  /\ strategy' = rb_strategy
  /\ initial_capital' = DefaultInitialCapital
  /\ results' = NoFrame
  /\ rb_pc' = "run"
  /\ UNCHANGED <<ret, completed, polars_build, optVars, rankVars,
                 tickerVars, rb_data, rb_type, rb_params, rb_strategy, rb_ret>>

\* backtester.run() has ended as r.
RbRan(r) ==
  /\ RunEnded(r)
  /\ rb_pc' = IF r.err = "none" THEN "get_performance_metrics" ELSE "done"
  /\ rb_ret' = IF r.err = "none" THEN rb_ret ELSE RbRaised(r.err)

\* line 286: results = backtester.run()
RbRun ==
  /\ rb_pc = "run"
  /\ RbRan(RunResult(data, strategy, initial_capital, polars_build))
  /\ UNCHANGED <<data, strategy, initial_capital, polars_build, optVars, rankVars,
                 tickerVars, rb_data, rb_type, rb_params, rb_strategy>>

\* backtester.get_performance_metrics() has ended as m.
RbMeasured(m) ==
  \E e \in RaisedBy(m.err) :
    /\ ret' = [op |-> "get_performance_metrics", err |-> e, val |-> m.val]
    /\ rb_ret' = IF e # "none" THEN RbRaised(e)
                 ELSE IF m.val = None THEN RbRaised("AssertionError")
                 ELSE [status |-> "returned", err |-> "none", metrics |-> m.val]

\* lines 287-292: metrics = backtester.get_performance_metrics(), the assert
\* and the return.
RbMetrics ==
  /\ rb_pc = "get_performance_metrics"
  /\ RbMeasured(GetPerformanceMetrics(results))
  /\ rb_pc' = "done"
  /\ UNCHANGED <<data, strategy, initial_capital, results, completed, polars_build,
                 optVars, rankVars, tickerVars, rb_data, rb_type, rb_params, rb_strategy>>

RbNext == RbCreateStrategy \/ RbBacktester \/ RbRun \/ RbMetrics

\* A call of run_backtest.
SpecRunBacktest == RbInit /\ [][RbNext]_vars

\* ------------------------------------------- optimise_buy_and_hold_ticker
\* What Yahoo Finance has for a ticker: nothing (the loader gives None), no
\* row in the date range, one row, or two rows that are flat, rise or fall,
\* or that hold the price 0.
TickerCloses ==
  {[missing |-> TRUE, closes |-> << >>]}
  \cup {[missing |-> FALSE, closes |-> c] :
          c \in {<< >>, <<Num(1)>>, <<Num(1), Num(1)>>, <<Num(1), Num(3)>>,
                 <<Num(3), Num(1)>>, <<Num(3), Num(3)>>, <<Num(0), Num(0)>>}}

\* load_yfinance_data_one_ticker(ticker, start_date, end_date)
LoadOneTicker(yf) ==
  IF yf.missing THEN None
  ELSE [Date |-> Dates(Len(yf.closes)), Close |-> yf.closes]

\* optimise_buy_and_hold_ticker entered: lines 97-103.
BhInit ==
  /\ BtIdle /\ OptIdle /\ RankIdle /\ RbIdle /\ PtIdle
  /\ bh_i = 0 /\ bh_best_ticker = NoTicker /\ bh_best_metrics = None
  /\ bh_best_total_return = NInf /\ bh_evaluated = << >>
  /\ polars_build = DefaultBuild
  /\ bh_ret = [status |-> "running"]
  /\ \E n \in 0..MaxTickers :
       /\ top_companies = SubSeq(Tickers, 1, n)
       /\ yf_closes \in [1..n -> TickerCloses]

\* An exception leaves optimise_buy_and_hold_ticker.
BhRaised(e) == [status |-> "raised", err |-> e, val |-> None]

\* metrics and metrics["Total Return"] > best_total_return (a dict of
\* three keys is true).
BhImproves(metrics, best) == metrics # None /\ Gt(metrics["Total Return"], best)


\* Lines 117-120 after get_performance_metrics has ended as m (the
\* exception raised is e): the best candidate so far is replaced, or not.
BhMeasured(ticker, m, e) ==
  IF e # "none"
  THEN /\ bh_ret' = BhRaised(e)
       /\ UNCHANGED <<bh_i, bh_best_ticker, bh_best_metrics, bh_best_total_return,
                      bh_evaluated>>
  ELSE /\ bh_i' = bh_i + 1
       /\ bh_evaluated' = Append(bh_evaluated, [ticker |-> ticker, metrics |-> m.val])
       /\ IF BhImproves(m.val, bh_best_total_return)
          THEN /\ bh_best_total_return' = m.val["Total Return"]
               /\ bh_best_ticker' = ticker
               /\ bh_best_metrics' = m.val
          ELSE UNCHANGED <<bh_best_ticker, bh_best_metrics, bh_best_total_return>>
       /\ UNCHANGED bh_ret

\* Lines 112-115: the backtest of the candidate, backtester.run() having
\* ended as r.
BhRan(ticker, r) ==
  IF r.err # "none"
  THEN /\ bh_ret' = BhRaised(r.err)
       /\ UNCHANGED <<bh_i, bh_best_ticker, bh_best_metrics, bh_best_total_return,
                      bh_evaluated>>
  ELSE \E e \in RaisedBy(GetPerformanceMetrics(r.df).err) :
         BhMeasured(ticker, GetPerformanceMetrics(r.df), e)

\* Lines 108-110 and on: the candidate whose data has been loaded.
BhLoaded(ticker, prices) ==
  IF prices = None \/ IsEmpty(prices)
  THEN /\ bh_i' = bh_i + 1
       /\ UNCHANGED <<bh_best_ticker, bh_best_metrics, bh_best_total_return,
                      bh_evaluated, bh_ret>>
  ELSE BhRan(ticker,
             RunResult(prices, [kind |-> BuyAndHoldKind, params |-> << >>],
                       DefaultInitialCapital, polars_build))

\* One pass of the loop of lines 104-120.
BhEvaluate ==
  /\ bh_ret.status = "running"
  /\ bh_i < Len(top_companies)
  /\ BhLoaded(top_companies[bh_i + 1], LoadOneTicker(yf_closes[bh_i + 1]))
  /\ UNCHANGED <<btVars, optVars, rankVars, rbVars, yfVars, ptVars>>

\* Lines 125-128, after the loop.
BhFinish ==
  /\ bh_ret.status = "running"
  /\ bh_i = Len(top_companies)
  /\ bh_ret' = IF bh_best_ticker = NoTicker \/ bh_best_metrics = None
               THEN BhRaised("ValueError: Buy and Hold optimisation failed")
               ELSE [status |-> "returned", err |-> "none",
                     val |-> <<bh_best_ticker, << >>, bh_best_metrics>>]
  /\ UNCHANGED <<btVars, optVars, rankVars, rbVars, yfVars, ptVars, bh_i, bh_best_ticker,
                 bh_best_metrics, bh_best_total_return, bh_evaluated>>

BhNext == BhEvaluate \/ BhFinish

\* A call of optimise_buy_and_hold_ticker.
SpecBuyAndHoldTicker == BhInit /\ [][BhNext]_vars

\* ------------------------------------------ optimise_pairs_trading_tickers
\* optimise_strategy_params as a function of its arguments: the loop over
\* param_combinations from the k-th on, best being [params, metrics,
\* sharpe_ratio] so far.  The result is the set of ways the call can end,
\* [err, params, metrics].
RECURSIVE OptimiseFrom(_, _, _, _, _, _)

\* One pass of the loop, run_backtest having ended in one of outcomes.
OptimiseStep(prices, type, combinations, k, best, build, outcomes) ==
  IF \E o \in outcomes : o.err # "none"
  THEN {[err |-> o.err, params |-> None, metrics |-> None] : o \in outcomes}
  ELSE LET metrics == (CHOOSE o \in outcomes : TRUE).metrics
       IN OptimiseFrom(prices, type, combinations, k + 1,
                       IF Improves(metrics["Sharpe Ratio"], best.sharpe_ratio)
                       THEN [params |-> combinations[k], metrics |-> metrics,
                             sharpe_ratio |-> metrics["Sharpe Ratio"]]
                       ELSE best,
                       build)

OptimiseFrom(prices, type, combinations, k, best, build) ==
  IF k > Len(combinations)
  THEN IF NoWinner(best.params, best.metrics)
       THEN {[err |-> OptimisationFailed, params |-> None, metrics |-> None]}
       ELSE {[err |-> "none", params |-> best.params, metrics |-> best.metrics]}
  ELSE OptimiseStep(prices, type, combinations, k, best, build,
                    RunBacktest(prices, type, combinations[k], build))

\* optimise_strategy_params(data, strategy_type, parameter_ranges)
OptimiseStrategyParams(prices, type, ranges, build) ==
  OptimiseFrom(prices, type, ParamCombinations(ranges), 1,
               [params |-> None, metrics |-> None, sharpe_ratio |-> NInf], build)

\* What yf.Ticker(t).info does for a ticker: raises, or a dict whose
\* longName is a name (a sequence of characters) or missing ("", the
\* default of info.get).
CompanyNames ==
  <<<<"A", "c", "m", "e">>, <<"B", "o", "l", "t">>, <<"C", "o", "r", "e">>,
    <<"D", "e", "l", "l">>, <<"E", "c", "h", "o">>, <<"F", "o", "r", "d">>,
    <<"G", "a", "p">>, <<"H", "p">>>>
OwnInfo(ticker) == [raises |-> FALSE, longName |-> CompanyNames[ticker]]
SharedInfo == [raises |-> FALSE, longName |-> <<"A", "b", "c">>]
SharedUpperInfo == [raises |-> FALSE, longName |-> <<"A", "B", "C">>]
NamelessInfo == [raises |-> FALSE, longName |-> << >>]
RaisingInfo == [raises |-> TRUE, longName |-> << >>]

\* The companies behind n tickers: all different; the first two one
\* company (two share classes); the first two one company whose name is
\* spelt in different case; the first two without a longName; the lookup of
\* the first raising while the second and the last are one company, in
\* different case.
LongNames(n) ==
  {[t \in 1..n |-> OwnInfo(t)],
   [t \in 1..n |-> IF t <= 2 THEN SharedInfo ELSE OwnInfo(t)],
   [t \in 1..n |-> IF t = 1 THEN SharedInfo
                   ELSE IF t = 2 THEN SharedUpperInfo ELSE OwnInfo(t)],
   [t \in 1..n |-> IF t <= 2 THEN NamelessInfo ELSE OwnInfo(t)],
   [t \in 1..n |-> IF t = 1 THEN RaisingInfo
                   ELSE IF t = 2 THEN SharedInfo
                   ELSE IF t = n THEN SharedUpperInfo ELSE OwnInfo(t)]}

\* str.lower() on the characters company names are written in.
LowerChar(c) ==
  CASE c = "A" -> "a" [] c = "B" -> "b" [] c = "C" -> "c" [] c = "D" -> "d"
    [] c = "E" -> "e" [] c = "F" -> "f" [] c = "G" -> "g" [] c = "H" -> "h"
    [] OTHER -> c
Lower(name) == [i \in DOMAIN name |-> LowerChar(name[i])]

\* is_same_company without the test for empty names.
IsSameCompanyOrNameless(info1, info2) ==
  IF info1.raises \/ info2.raises THEN FALSE
  ELSE Lower(info1.longName) = Lower(info2.longName)

\* is_same_company(ticker1, ticker2), given the info of each: an exception
\* of a lookup is caught and gives False.
IsSameCompany(info1, info2) ==
  IF info1.raises \/ info2.raises THEN FALSE
  ELSE LET company1 == Lower(info1.longName)
           company2 == Lower(info2.longName)
       IN company1 = company2 /\ company1 # << >> /\ company2 # << >>

\* list(itertools.combinations(seq, 2)): by position, the first member
\* varying slowest.
RECURSIVE Combinations2(_)
Combinations2(seq) ==
  IF Len(seq) < 2 THEN << >>
  ELSE [j \in 1..(Len(seq) - 1) |-> <<seq[1], seq[j + 1]>>] \o Combinations2(Tail(seq))

\* [pair for pair in ticker_pairs if not is_same_company(pair[0], pair[1])]
RECURSIVE DifferentCompanies(_, _)
DifferentCompanies(pairs, names) ==
  IF pairs = << >> THEN << >>
  ELSE IF IsSameCompany(names[pairs[1][1]], names[pairs[1][2]])
       THEN DifferentCompanies(Tail(pairs), names)
       ELSE <<pairs[1]>> \o DifferentCompanies(Tail(pairs), names)

\* What Yahoo Finance has for a ticker of a pair: nothing, no row, one row,
\* or four rows: flat, one day up, or up and down twice.
PairTickerCloses ==
  {[missing |-> TRUE, closes |-> << >>]}
  \cup {[missing |-> FALSE, closes |-> c] :
          c \in {<< >>, <<Num(1)>>, <<Num(1), Num(1), Num(1), Num(1)>>,
                 <<Num(1), Num(1), Num(2), Num(1)>>,
                 <<Num(1), Num(2), Num(1), Num(2)>>}}

Min2(a, b) == IF a < b THEN a ELSE b

\* load_yfinance_data_two_tickers: the days both tickers have a close for
\* (drop_nulls), None when a ticker is unknown.
LoadTwoTickers(yf1, yf2) ==
  IF yf1.missing \/ yf2.missing THEN None
  ELSE LET n == Min2(Len(yf1.closes), Len(yf2.closes))
       IN [Date |-> Dates(n), Close_1 |-> SubSeq(yf1.closes, 1, n),
           Close_2 |-> SubSeq(yf2.closes, 1, n)]

\* strategy_params of the call, in insertion order: each value a number
\* (scalar) or a list of candidates.
PtScalarParams ==
  <<[name |-> "window", scalar |-> TRUE, values |-> <<2>>],
    [name |-> "entry_z_score", scalar |-> TRUE, values |-> <<Rat(3, 5)>>],
    [name |-> "exit_z_score", scalar |-> TRUE, values |-> <<Rat(1, 2)>>]>>
PtRangeParams ==
  <<[name |-> "window", scalar |-> FALSE, values |-> <<3, 2>>],
    [name |-> "entry_z_score", scalar |-> TRUE, values |-> <<Rat(3, 5)>>],
    [name |-> "exit_z_score", scalar |-> FALSE, values |-> <<Rat(1, 2)>>]>>

\* The calls enumerated: [strategy_params, optimise].
PtCalls ==
  {[strategy_params |-> PtScalarParams, optimise |-> FALSE],
   [strategy_params |-> PtScalarParams, optimise |-> TRUE],
   [strategy_params |-> PtRangeParams, optimise |-> TRUE]}

\* {k: [v] if isinstance(v, (int, float)) else v for k, v in ...}
ParamRanges(strategy_params) ==
  [j \in 1..Len(strategy_params) |->
     [name |-> strategy_params[j].name, values |-> strategy_params[j].values]]

\* strategy_params as the dict run_backtest is given (every value a number).
ParamDict(strategy_params) ==
  [name \in {strategy_params[j].name : j \in 1..Len(strategy_params)} |->
     strategy_params[CHOOSE j \in 1..Len(strategy_params) :
                       strategy_params[j].name = name].values[1]]

\* None where a pair is expected.
NoPair == << >>

\* optimise_pairs_trading_tickers entered: lines 209-212.
PtInit ==
  /\ BtIdle /\ OptIdle /\ RankIdle /\ RbIdle /\ BhIdle
  /\ polars_build = DefaultBuild
  /\ \E n \in 0..MaxTickers :
       /\ top_companies = SubSeq(Tickers, 1, n)
       /\ yf_closes \in [1..n -> PairTickerCloses]
       /\ long_names \in LongNames(n)
  /\ \E call \in PtCalls :
       pt_strategy_params = call.strategy_params /\ pt_optimise = call.optimise
  /\ ticker_pairs = << >>
  /\ pt_i = 0
  /\ pt_best_pair = NoPair /\ pt_best_params = None /\ pt_best_metrics = None
  /\ pt_best_sharpe_ratio = NInf
  /\ pt_evaluated = << >>
  /\ pt_ret = [status |-> "entered"]

\* An exception leaves optimise_pairs_trading_tickers.
PtRaised(e) == [status |-> "raised", err |-> e, val |-> None]

\* Lines 214-221: the combinations, then the same-company filter.
PtCombine ==
  /\ pt_ret.status = "entered"
  /\ ticker_pairs' = DifferentCompanies(Combinations2(top_companies), long_names)
  /\ pt_ret' = [status |-> "running"]
  /\ UNCHANGED <<btVars, optVars, rankVars, rbVars, yfVars, bhVars, long_names,
                 pt_strategy_params, pt_optimise, pt_i, pt_best_pair, pt_best_params,
                 pt_best_metrics, pt_best_sharpe_ratio, pt_evaluated>>

\* The comparison with the parameters of the first pair kept.
PtComparedParamsKept(pair, o) ==
  IF o.err # "none"
  THEN /\ pt_ret' = PtRaised(o.err)
       /\ UNCHANGED <<pt_i, pt_best_pair, pt_best_params, pt_best_metrics,
                      pt_best_sharpe_ratio, pt_evaluated>>
  ELSE /\ pt_i' = pt_i + 1
       /\ pt_evaluated' = Append(pt_evaluated, [pair |-> pair, metrics |-> o.metrics])
       /\ IF Improves(o.metrics["Sharpe Ratio"], pt_best_sharpe_ratio)
          THEN /\ pt_best_sharpe_ratio' = o.metrics["Sharpe Ratio"]
               /\ pt_best_pair' = pair
               /\ pt_best_params' =
                    IF pt_best_params = None THEN o.params ELSE pt_best_params
               /\ pt_best_metrics' = o.metrics
          ELSE UNCHANGED <<pt_best_pair, pt_best_params, pt_best_metrics,
                           pt_best_sharpe_ratio>>
       /\ UNCHANGED pt_ret

\* Lines 252-256 for a pair whose backtest ended as o = [err, params,
\* metrics].
PtCompared(pair, o) ==
  IF o.err # "none"
  THEN /\ pt_ret' = PtRaised(o.err)
       /\ UNCHANGED <<pt_i, pt_best_pair, pt_best_params, pt_best_metrics,
                      pt_best_sharpe_ratio, pt_evaluated>>
  ELSE /\ pt_i' = pt_i + 1
       /\ pt_evaluated' = Append(pt_evaluated, [pair |-> pair, metrics |-> o.metrics])
       /\ IF Improves(o.metrics["Sharpe Ratio"], pt_best_sharpe_ratio)
          THEN /\ pt_best_sharpe_ratio' = o.metrics["Sharpe Ratio"]
               /\ pt_best_pair' = pair
               /\ pt_best_params' = o.params
               /\ pt_best_metrics' = o.metrics
          ELSE UNCHANGED <<pt_best_pair, pt_best_params, pt_best_metrics,
                           pt_best_sharpe_ratio>>
       /\ UNCHANGED pt_ret

\* Lines 239-250: the ways the backtest of a pair can end, with or without
\* optimisation of the parameters.
PairBacktest(prices, strategy_params, optimise, build) ==
  IF optimise
  THEN OptimiseStrategyParams(prices, PairsKind, ParamRanges(strategy_params), build)
  ELSE {[err |-> b.err, params |-> ParamDict(strategy_params), metrics |-> b.metrics] :
          b \in RunBacktest(prices, PairsKind, ParamDict(strategy_params), build)}

\* Lines 235-237 and on: the pair whose data has been loaded.
PtLoaded(pair, prices) ==
  IF prices = None \/ IsEmpty(prices)
  THEN /\ pt_i' = pt_i + 1
       /\ UNCHANGED <<pt_best_pair, pt_best_params, pt_best_metrics,
                      pt_best_sharpe_ratio, pt_evaluated, pt_ret>>
  ELSE \E o \in PairBacktest(prices, pt_strategy_params, pt_optimise, polars_build) :
         PtCompared(pair, o)

\* One pass of the loop of lines 227-259.
PtEvaluate ==
  /\ pt_ret.status = "running"
  /\ pt_i < Len(ticker_pairs)
  /\ PtLoaded(ticker_pairs[pt_i + 1],
              LoadTwoTickers(yf_closes[ticker_pairs[pt_i + 1][1]],
                             yf_closes[ticker_pairs[pt_i + 1][2]]))
  /\ UNCHANGED <<btVars, optVars, rankVars, rbVars, yfVars, bhVars, long_names,
                 pt_strategy_params, pt_optimise, ticker_pairs>>

\* Lines 261-266, after the loop.
PtFinish ==
  /\ pt_ret.status = "running"
  /\ pt_i = Len(ticker_pairs)
  /\ pt_ret' = IF pt_best_pair = NoPair \/ NoWinner(pt_best_params, pt_best_metrics)
               THEN PtRaised("ValueError: Pairs trading optimisation failed")
               ELSE [status |-> "returned", err |-> "none",
                     val |-> [pair |-> pt_best_pair, params |-> pt_best_params,
                              metrics |-> pt_best_metrics]]
  /\ UNCHANGED <<btVars, optVars, rankVars, rbVars, yfVars, bhVars, long_names,
                 pt_strategy_params, pt_optimise, ticker_pairs, pt_i, pt_best_pair,
                 pt_best_params, pt_best_metrics, pt_best_sharpe_ratio, pt_evaluated>>

PtNext == PtCombine \/ PtEvaluate \/ PtFinish

\* A call of optimise_pairs_trading_tickers.
SpecPairsTickers == PtInit /\ [][PtNext]_vars

\* ========================================================= claims C1 - C10
Ran == results # NoFrame
Rows == Height(results)
ReturnedMetrics ==
  ret.op = "get_performance_metrics" /\ ret.err = "none" /\ ret.val # None

\* DataFrame.head(k)
FrameHead(df, k) == [c \in DOMAIN df |-> SubSeq(df[c], 1, k)]
ResultColumns == {"asset_returns", "strategy_returns", "cumulative_returns", "equity_curve"}
\* The Signals frame a result was computed from.
SignalsOf(res) == [c \in DOMAIN res \ ResultColumns |-> res[c]]

\* strategy_returns of a run over the first k rows only.
ReturnsOfHead(k) ==
  CalculateReturns(FrameHead(data, k), FrameHead(SignalsOf(results), k), initial_capital)
    .df.strategy_returns

PositionsAreSignalDiff ==
  /\ "signal" \in Columns(results)
  /\ results.positions = FillNull(Diff(results.signal), Num(0))

\* C2: for a strategy with positions = signal.diff(), every day after a day
\* on which the signal held a position earns that position's return:
\* strategy_returns[t] = signal[t-1] * asset_returns[t] (infinite products
\* counted as 0); for the holding test's prices and signal [0,1,1,1,0] the
\* returns are [0, 0, 1/10, 1/10, -1/10] and the total return is
\* 11/10 * 11/10 * 9/10 - 1.
C2_ReturnsWhileHolding ==
  (Ran /\ Rows > 0 /\ PositionsAreSignalDiff) =>
    /\ \A t \in 2..Rows :
         LET p == Mul(results.signal[t - 1], results.asset_returns[t])
         IN results.strategy_returns[t] = IF IsInf(p) THEN Num(0) ELSE p
    /\ (data = HoldingFixture /\ strategy.kind = MockHoldingKind) =>
         /\ results.strategy_returns =
              <<Num(0), Num(0), Rat(1, 10), Rat(1, 10), Rat(-1, 10)>>
         /\ Sub(results.cumulative_returns[5], Num(1)) = Rat(89, 1000)

\* C7: get_performance_metrics returns None until a run has completed (also
\* after a run that raised), and after a completed run on non-empty data a
\* record with exactly the three metric keys.
C7_NotRunSentinel ==
  (ret.op = "get_performance_metrics") =>
    /\ ~completed => (ret.err = "none" /\ ret.val = None)
    /\ (completed /\ Height(data) > 0) =>
         (ret.err = "none" /\ ret.val # None /\ DOMAIN ret.val = MetricKeys)

StdZeroOrUndefined(v) == IsZero(v) \/ IsNaN(v) \/ IsNull(v)

\* C8: on the result of a run over at least one row get_performance_metrics
\* does not raise; the Sharpe ratio is NaN exactly when the standard
\* deviation of strategy_returns is zero or undefined, and otherwise it is
\* sqrt(252) * mean / std.
C8_SharpeNaNIffNoDeviation ==
  (ret.op = "get_performance_metrics" /\ Ran /\ Rows > 0) =>
    LET v == Var(results.strategy_returns)
    IN /\ ret.err = "none" /\ ret.val # None
       /\ IsNaN(ret.val["Sharpe Ratio"]) <=> StdZeroOrUndefined(v)
       /\ ~StdZeroOrUndefined(v) =>
            ret.val["Sharpe Ratio"] = SharpeRatio(Mean(results.strategy_returns), v)

\* The combinations of the call, and how it ended.
Combinations == ParamCombinations(parameter_ranges)
OptReturned == opt_ret.status = "returned"
OptRaised == opt_ret.status = "raised"
EvaluatedAll ==
  [k \in 1..Len(evaluated) |-> evaluated[k].params] = Combinations
\* The candidate at position j of the enumeration is the one returned.
ReturnedAt(j) ==
  /\ evaluated[j].params = opt_ret.params
  /\ evaluated[j].sharpe = opt_ret.metrics["Sharpe Ratio"]

\* C3 (as stated): when optimise_strategy_params returns, every combination
\* of the cartesian product was evaluated exactly once, in product order;
\* the Sharpe ratio of the returned candidate is >= that of every other
\* candidate, and no candidate enumerated before it has the same Sharpe ratio.
C3_ReturnsMaximum ==
  OptReturned =>
    /\ EvaluatedAll
    /\ \E j \in 1..Len(evaluated) :
         /\ ReturnedAt(j)
         /\ \A k \in 1..Len(evaluated) :
              k # j => Ge(evaluated[j].sharpe, evaluated[k].sharpe)
         /\ \A k \in 1..(j - 1) : evaluated[k].sharpe # evaluated[j].sharpe

\* C3 (amended): as C3, with the comparison made against every other
\* candidate whose Sharpe ratio is a number: a candidate whose Sharpe ratio
\* is NaN is never returned and is not compared with.
C3_ReturnsMaximumAmongNumbers ==
  OptReturned =>
    /\ EvaluatedAll
    /\ \E j \in 1..Len(evaluated) :
         /\ ReturnedAt(j)
         /\ ~IsNaN(evaluated[j].sharpe)
         /\ \A k \in 1..Len(evaluated) :
              (k # j /\ ~IsNaN(evaluated[k].sharpe))
                => Ge(evaluated[j].sharpe, evaluated[k].sharpe)
         /\ \A k \in 1..(j - 1) : evaluated[k].sharpe # evaluated[j].sharpe

\* A call that returned the first of several candidates sharing the highest
\* Sharpe ratio.
C3_Witness ==
  /\ OptReturned
  /\ \E j \in 1..Len(evaluated) :
       /\ ReturnedAt(j)
       /\ \E k \in (j + 1)..Len(evaluated) : evaluated[k].sharpe = evaluated[j].sharpe

\* What run_backtest can do for the combination at position k.
CandidateErrors(k) ==
  {b.err : b \in RunBacktest(opt_data, strategy_type, Combinations[k], polars_build)}
EveryCandidateThrows ==
  \A k \in 1..Len(Combinations) : "none" \notin CandidateErrors(k)
FailedExplicitly == OptRaised /\ opt_ret.err = OptimisationFailed

RECURSIVE AvailableUpTo(_)
AvailableUpTo(i) ==
  IF i = 0 THEN << >>
  ELSE IF ~info[tickers[i]].raises /\ info[tickers[i]].marketCap # None
  THEN Append(AvailableUpTo(i - 1), <<tickers[i], info[tickers[i]].marketCap>>)
  ELSE AvailableUpTo(i - 1)
Available == AvailableUpTo(Len(tickers))
RankReturned == rank_ret.status = "returned"
Caps(companies) == [i \in 1..Len(companies) |-> companies[i][2]]
Range(f) == {f[i] : i \in DOMAIN f}

\* C5: get_top_sp500_companies returns whatever single lookups do (a market
\* cap that is unavailable, a fetch task that raises): the tickers whose
\* lookup fails are dropped and the others are ranked.
C5_PerTickerRecovery ==
  (rank_ret.status # "running") =>
    /\ RankReturned
    /\ Range(rank_ret.val) \subseteq Range(Available)
    /\ Len(rank_ret.val) =
         IF num_companies > 0 /\ num_companies < Len(Available)
         THEN num_companies ELSE Len(Available)

\* C6 (as stated): the list returned is the one a collection in the order
\* of submission gives, whatever the order of completion and whatever the
\* market caps.
C6_SameForEveryCompletionOrder ==
  RankReturned =>
    rank_ret.val = TopCompanies(SortedCompanies(Available), num_companies)

\* C6 (amended): the market caps of the list returned are descending and
\* the same for every order of completion; the list itself (order and
\* membership) is the same for every order of completion when the market
\* caps collected are pairwise distinct.
C6_SameWhenCapsDistinct ==
  RankReturned =>
    LET reference == TopCompanies(SortedCompanies(Available), num_companies)
    IN /\ Caps(rank_ret.val) = Caps(reference)
       /\ \A i \in 1..(Len(rank_ret.val) - 1) :
            Ge(rank_ret.val[i][2], rank_ret.val[i + 1][2])
       /\ Cardinality(Range(Caps(Available))) = Len(Available)
            => rank_ret.val = reference

\* A truncated list returned from lookups of distinct market caps that
\* completed in an order that is neither the order of submission nor the
\* order of the ranking.
C6_Witness ==
  /\ RankReturned
  /\ Cardinality(Range(Caps(Available))) = Len(Available)
  /\ Len(sp500_companies) >= 2
  /\ sp500_companies # Available
  /\ sp500_companies # SortedCompanies(Available)
  /\ Len(rank_ret.val) < Len(sp500_companies)

\* A call of PairsTradingStrategy.generate_signals has returned or raised.
PairsCalled == ret.op = "generate_signals" /\ strategy.kind = PairsKind
LacksPairColumn == ~({"Close_1", "Close_2"} \subseteq Columns(data))
PairsColumnError == "ValueError: Data must contain 'Close_1' and 'Close_2' columns"

C9_MaxDrawdownNonPositive ==
  ReturnedMetrics => Le(ret.val["Max Drawdown"], Num(0))

\* C9 (amended): whatever the returns, for every initial_capital other than
\* 0 the Max Drawdown that is returned is <= 0 (with initial_capital = 0
\* every drawdown is 0/0).
C9_MaxDrawdownNonPositiveNonZeroCapital ==
  (ReturnedMetrics /\ initial_capital # 0) =>
    Le(ret.val["Max Drawdown"], Num(0))

\* Metrics of a run whose equity curve goes negative (a return below -100%)
\* and whose Max Drawdown is a loss.
C9_Witness ==
  /\ ReturnedMetrics /\ initial_capital # 0
  /\ \E t \in 1..Rows : Lt(results.strategy_returns[t], Num(-1))
  /\ \E t \in 1..Rows : Lt(results.cumulative_returns[t], Num(0))
  /\ Lt(ret.val["Max Drawdown"], Num(-1))

\* ---- generate_signals of the strategy variants -------------------------

StrategyCalled == ret.op = "generate_signals"
Generated == StrategyCalled /\ ret.err = "none"

\* A one-row price series a strategy of that kind accepts.
SampleFor(kind) ==
  IF kind = PairsKind
  THEN [Date |-> Dates(1), Close_1 |-> <<Num(1)>>, Close_2 |-> <<Num(1)>>]
  ELSE [Date |-> Dates(1), Close |-> <<Num(1)>>]

\* The columns the strategy produces for input that has rows.
NonEmptyColumns == Columns(GenerateSignals(strategy, SampleFor(strategy.kind), polars_build).df)

\* C11: for each of the four strategy variants, generate_signals on an empty
\* price series does not raise and returns an empty Signals container that
\* has the Date, signal and positions columns and has the same column set
\* as the variant produces for non-empty input.
C11_EmptySignalsSameColumns ==
  (StrategyCalled /\ IsEmpty(data)) =>
    /\ ret.err = "none"
    /\ IsEmpty(ret.val)
    /\ {"Date", "signal", "positions"} \subseteq Columns(ret.val)
    /\ Columns(ret.val) = NonEmptyColumns

\* ---- run_backtest ------------------------------------------------------

\* create_strategy has been left, by return or by exception.
StrategyDecided == rb_pc \notin {"idle", "create_strategy"}
InvalidStrategyType == "ValueError: Invalid strategy type"

\* C12: create_strategy, and so run_backtest, raises ValueError "Invalid
\* strategy type" for every strategy type outside the four known ones, when
\* the strategy is constructed: no Backtester exists yet, the price data has
\* not been looked at and nothing has run.  For each of the four known types
\* it never raises that error and, given the parameters the constructor
\* reads, it returns the strategy variant of that type.
C12_UnknownTypeFatalAtConstruction ==
  StrategyDecided =>
    /\ rb_type \notin TRADING_STRATEGIES =>
         /\ rb_pc = "done"
         /\ rb_ret = RbRaised(InvalidStrategyType)
         /\ rb_strategy = None
         /\ BtIdle
    /\ rb_type \in TRADING_STRATEGIES =>
         /\ ~(rb_ret.status = "raised" /\ rb_ret.err = InvalidStrategyType)
         /\ ConstructorKeys(rb_type) \subseteq DOMAIN rb_params =>
              /\ rb_strategy # None
              /\ rb_strategy.kind = rb_type
              /\ rb_strategy.params = rb_params

\* An unknown type rejected although the price data could not have been
\* used either (it has no Close column).
C12_Witness ==
  /\ rb_pc = "done" /\ rb_type = "Invalid Strategy"
  /\ rb_ret = RbRaised(InvalidStrategyType)
  /\ "Close" \notin Columns(rb_data) /\ ~IsEmpty(rb_data)
  /\ BtIdle

\* ---- Backtester.run: the schema checks ---------------------------------

RunCalled == ret.op = "run"
DateMissing == "ValueError: 'Date' column is missing from the signals DataFrame"
CloseMissing == "ValueError: Data does not contain required 'Close' columns"
\* The errors about a column that is not there: those of the Backtester,
\* that of polars, that of the pairs strategy.
SchemaErrors == {DateMissing, CloseMissing, "ColumnNotFoundError", PairsColumnError}
\* What the strategy returns for self.data.
SignalsForData == GenerateSignals(strategy, data, polars_build)
SignalsLackDate ==
  SignalsForData.err = "none" /\ "Date" \notin Columns(SignalsForData.df)
NoCloseColumns ==
  "Close" \notin Columns(data) /\ ~({"Close_1", "Close_2"} \subseteq Columns(data))

\* C13: Backtester.run fails with a schema error and leaves no result (a)
\* when the Signals the strategy returns lack a Date column and (b) when
\* the price data holds neither Close nor both Close_1 and Close_2; the
\* Date check comes first: with both defects it is the Date error that is
\* raised, and the Close error is raised when the Signals have a Date.
C13_SchemaErrorsNoResult ==
  RunCalled =>
    /\ SignalsLackDate => (ret.err = DateMissing /\ results = NoFrame /\ ~completed)
    /\ NoCloseColumns => (ret.err \in SchemaErrors /\ results = NoFrame /\ ~completed)
    /\ (NoCloseColumns /\ SignalsForData.err = "none" /\ ~SignalsLackDate) =>
         ret.err = CloseMissing

\* Signals without Date over prices without Close: the Date error.
C13_Witness ==
  /\ RunCalled /\ SignalsLackDate /\ NoCloseColumns
  /\ ret.err = DateMissing /\ results = NoFrame

\* The input is a price series of a single instrument, with rows.
HasPrices == ~IsEmpty(data) /\ {"Date", "Close"} \subseteq Columns(data)

\* C14: BuyAndHoldStrategy.generate_signals returns, for every price series
\* that has rows and whatever its prices, as many rows as the input, with
\* signal = 1 and positions = 1 on every row.
C14_BuyAndHoldAlwaysLong ==
  (StrategyCalled /\ strategy.kind = BuyAndHoldKind /\ HasPrices) =>
    /\ ret.err = "none"
    /\ Height(ret.val) = Height(data)
    /\ \A c \in Columns(ret.val) : Len(ret.val[c]) = Height(data)
    /\ \A t \in 1..Height(data) :
         ret.val.signal[t] = Num(1) /\ ret.val.positions[t] = Num(1)

\* Long on every row of a series that falls and then rises.
C14_Witness ==
  /\ Generated /\ strategy.kind = BuyAndHoldKind /\ Height(data) >= 3
  /\ Lt(data.Close[2], data.Close[1]) /\ Gt(data.Close[3], data.Close[2])
  /\ \A t \in 1..3 : ret.val.signal[t] = Num(1) /\ ret.val.positions[t] = Num(1)

\* The sum of s[lo..hi].
RECURSIVE WindowSum(_, _, _)
WindowSum(s, lo, hi) == IF hi < lo THEN Num(0) ELSE Add(WindowSum(s, lo, hi - 1), s[hi])

\* The first row of the window of w rows that ends at row t.
WindowStart(t, w) == IF t > w THEN t - w + 1 ELSE 1

\* The mean of Close over the short window exceeds that over the long one
\* at row t: the sums compared, each scaled by the other window's count.
ShortAboveLong(t) ==
  LET s0 == WindowStart(t, strategy.params.short_window)
      l0 == WindowStart(t, strategy.params.long_window)
  IN Gt(Mul(WindowSum(data.Close, s0, t), Num(t - l0 + 1)),
        Mul(WindowSum(data.Close, l0, t), Num(t - s0 + 1)))

NoDeviationAt(t) ==
  LET var == RollingVar(data.Close, strategy.params.window, polars_build)[t]
  IN IsZero(var) \/ IsNull(var)

\* C16: MeanReversionStrategy.generate_signals gives a signal in {-1, 0, 1}
\* on every row, and on every row where the rolling standard deviation of
\* Close is exactly zero (a flat window) or undefined the signal is 0: no
\* buy, no sell, no division error.
C16_NoSignalWithoutDeviation ==
  (StrategyCalled /\ strategy.kind = MeanReversionKind /\ HasPrices) =>
    /\ ret.err = "none"
    /\ \A t \in 1..Height(data) :
         /\ ret.val.signal[t] \in {Num(-1), Num(0), Num(1)}
         /\ NoDeviationAt(t) => ret.val.signal[t] = Num(0)

\* ---- the pairs strategy ------------------------------------------------

PairsGenerated == Generated /\ strategy.kind = PairsKind /\ ~IsEmpty(data)

\* The z_score at row t against a threshold (both as signed squares).
ZAbove(t, threshold) == Gt(ret.val.z_score[t], SignedSquare(threshold))
ZBelow(t, threshold) == Lt(ret.val.z_score[t], SignedSquare(threshold))
ZWithin(t, threshold) ==
  /\ Lt(ret.val.z_score[t], SignedSquare(threshold))
  /\ Gt(ret.val.z_score[t], SignedSquare(Neg(threshold)))

\* The scan from the first row to row t that carries the last signal,
\* starting from 0.
RECURSIVE ScanSignal(_)
ScanSignal(t) ==
  IF t = 0 THEN 0
  ELSE IF ZAbove(t, strategy.params.entry_z_score) THEN -1
  ELSE IF ZBelow(t, Neg(strategy.params.entry_z_score)) THEN 1
  ELSE IF ZWithin(t, strategy.params.exit_z_score) THEN 0
  ELSE ScanSignal(t - 1)

\* C17: the signal column of PairsTradingStrategy is what a left-to-right
\* scan carrying the last signal gives, starting from 0: z_score >
\* entry_z_score gives -1, otherwise z_score < -entry_z_score gives +1,
\* otherwise |z_score| < exit_z_score gives 0, otherwise the signal of the
\* row before is kept; the comparisons are strict and made in that order;
\* the signal is never null and always -1, 0 or 1; the first positions is
\* 0 and positions[t] = signal[t] - signal[t-1] after it.
C17_SignalIsCarriedScan ==
  PairsGenerated =>
    \A t \in 1..Height(data) :
      /\ ret.val.signal[t] = Num(ScanSignal(t))
      /\ ~IsNull(ret.val.signal[t])
      /\ ret.val.signal[t] \in {Num(-1), Num(0), Num(1)}
      /\ ret.val.positions[t] =
           (IF t = 1 THEN Num(0) ELSE Sub(ret.val.signal[t], ret.val.signal[t - 1]))

\* A short signal entered and then held on a row where no test matches.
C17_Witness ==
  /\ PairsGenerated
  /\ \E t \in 2..Height(data) :
       /\ ret.val.signal[t - 1] = Num(-1) /\ ret.val.signal[t] = Num(-1)
       /\ ~ZAbove(t, strategy.params.entry_z_score)
       /\ ~ZBelow(t, Neg(strategy.params.entry_z_score))
       /\ ~ZWithin(t, strategy.params.exit_z_score)

\* C18: in PairsTradingStrategy.generate_signals spread = Close_1 - Close_2
\* on every row and z_score is never null: it is (spread - rolling mean) /
\* rolling std where the rolling std is not zero, and 0 where the rolling
\* std is zero or undefined, the first row included.  (z_score and
\* spread_std are held squared: z_score * spread_std^2 = (spread - mean)^2,
\* with the sign of spread - mean.)
C18_SpreadAndZScore ==
  PairsGenerated =>
    /\ IsZero(ret.val.z_score[1])
    /\ \A t \in 1..Height(data) :
         LET dev == Sub(ret.val.spread[t], ret.val.spread_mean[t])
             var == ret.val.spread_std[t]
             z == ret.val.z_score[t]
         IN /\ ret.val.spread[t] = Sub(data.Close_1[t], data.Close_2[t])
            /\ ~IsNull(z)
            /\ IF IsNull(var) \/ IsZero(var) THEN IsZero(z)
               ELSE /\ Mul((IF Sign(z) < 0 THEN Neg(z) ELSE z), var) = Mul(dev, dev)
                    /\ Sign(z) = Sign(dev)

\* A z_score of 0 on the first row and on a later flat window, and one that
\* is not 0.
C18_Witness ==
  /\ PairsGenerated /\ Height(data) >= 3
  /\ IsZero(ret.val.z_score[1])
  /\ \E t \in 2..Height(data) : IsZero(ret.val.spread_std[t]) /\ IsZero(ret.val.z_score[t])
  /\ \E t \in 2..Height(data) : Sign(ret.val.z_score[t]) < 0

\* ---- optimise_buy_and_hold_ticker --------------------------------------

BhEnded == bh_ret.status \in {"returned", "raised"}
BhReturned == bh_ret.status = "returned"
BhFailed == "ValueError: Buy and Hold optimisation failed"

\* The metrics the Buy and Hold backtest of candidate i yields, None if its
\* price series is missing or empty or the backtest raises.
BhMetricsOf(i) ==
  LET prices == LoadOneTicker(yf_closes[i])
  IN IF prices = None \/ IsEmpty(prices) THEN None
     ELSE LET r == RunResult(prices, [kind |-> BuyAndHoldKind, params |-> << >>],
                             DefaultInitialCapital, polars_build)
          IN IF r.err # "none" THEN None
             ELSE IF GetPerformanceMetrics(r.df).err # "none" THEN None
             ELSE GetPerformanceMetrics(r.df).val

\* The candidates with a price series that has rows, among the first k.
RECURSIVE BhWithData(_)
BhWithData(k) ==
  IF k = 0 THEN << >>
  ELSE IF yf_closes[k].missing \/ yf_closes[k].closes = << >> THEN BhWithData(k - 1)
  ELSE Append(BhWithData(k - 1), top_companies[k])

\* C19: optimise_buy_and_hold_ticker goes through the ranked candidates in
\* order, skipping those whose price series is missing or empty; it returns
\* (ticker, {}, metrics) for the candidate with the highest Buy and Hold
\* total return, the first seen among equals; the ticker returned is one
\* of the candidates; and it raises ValueError "Buy and Hold optimisation
\* failed" when no candidate yields metrics.
C19_BestTotalReturnFirstSeen ==
  /\ bh_ret.status = "running" =>
       [k \in 1..Len(bh_evaluated) |-> bh_evaluated[k].ticker] = BhWithData(bh_i)
  /\ BhReturned =>
       /\ \E i \in 1..Len(top_companies) :
            /\ bh_ret.val[1] = top_companies[i]
            /\ bh_ret.val[3] = BhMetricsOf(i)
            /\ \A j \in 1..Len(top_companies) :
                 BhMetricsOf(j) # None =>
                   /\ Le(BhMetricsOf(j)["Total Return"], BhMetricsOf(i)["Total Return"])
                   /\ j < i => Lt(BhMetricsOf(j)["Total Return"],
                                  BhMetricsOf(i)["Total Return"])
       /\ bh_ret.val[2] = << >>
  /\ (BhEnded /\ \A i \in 1..Len(top_companies) : BhMetricsOf(i) = None) =>
       bh_ret = BhRaised(BhFailed)

\* ---- optimise_pairs_trading_tickers ------------------------------------

PtCombined == pt_ret.status \notin {"idle", "entered"}
PtEnded == pt_ret.status \in {"returned", "raised"}
PtReturned == pt_ret.status = "returned"
PtFailed == "ValueError: Pairs trading optimisation failed"

\* The position of a ticker in top_companies.
RankOf(ticker) == CHOOSE i \in 1..Len(top_companies) : top_companies[i] = ticker

\* The pair of the tickers ranked i and j passes the same-company filter.
PassesFilter(i, j) ==
  ~IsSameCompany(long_names[top_companies[i]], long_names[top_companies[j]])

\* The pair has price data with rows.
HasPairData(pair) ==
  LET prices == LoadTwoTickers(yf_closes[pair[1]], yf_closes[pair[2]])
  IN prices # None /\ ~IsEmpty(prices)

\* The pairs of ticker_pairs with data, among the first k.
RECURSIVE PtWithData(_)
PtWithData(k) ==
  IF k = 0 THEN << >>
  ELSE IF HasPairData(ticker_pairs[k]) THEN Append(PtWithData(k - 1), ticker_pairs[k])
  ELSE PtWithData(k - 1)

\* The backtest of the pair ends with metrics, in every way it can end.
PairYieldsMetrics(pair) ==
  /\ HasPairData(pair)
  /\ \A o \in PairBacktest(LoadTwoTickers(yf_closes[pair[1]], yf_closes[pair[2]]),
                           pt_strategy_params, pt_optimise, polars_build) :
       o.err = "none"

\* C20: optimise_pairs_trading_tickers evaluates exactly the unordered
\* 2-combinations of the ranked tickers that pass the same-company filter:
\* each once, no ticker with itself, never a pair in both orders, in
\* combination order, skipping the pairs whose data is missing or empty;
\* it returns the pair with the highest Sharpe ratio, the pair evaluated
\* first among equals; and it raises ValueError "Pairs trading optimisation
\* failed" when no pair qualifies.
C20_BestPairOfCombinations ==
  /\ PtCombined =>
       /\ \A k \in 1..Len(ticker_pairs) :
            LET i == RankOf(ticker_pairs[k][1])
                j == RankOf(ticker_pairs[k][2])
            IN /\ i < j /\ PassesFilter(i, j)
               /\ \A l \in 1..(k - 1) :
                    LET i0 == RankOf(ticker_pairs[l][1])
                        j0 == RankOf(ticker_pairs[l][2])
                    IN i0 < i \/ (i0 = i /\ j0 < j)
       /\ \A i, j \in 1..Len(top_companies) :
            (i < j /\ PassesFilter(i, j)) =>
              \E k \in 1..Len(ticker_pairs) :
                ticker_pairs[k] = <<top_companies[i], top_companies[j]>>
  /\ pt_ret.status = "running" =>
       [k \in 1..Len(pt_evaluated) |-> pt_evaluated[k].pair] = PtWithData(pt_i)
  /\ PtReturned =>
       \E k \in 1..Len(pt_evaluated) :
         /\ pt_ret.val.pair = pt_evaluated[k].pair
         /\ pt_ret.val.metrics = pt_evaluated[k].metrics
         /\ \A l \in 1..Len(pt_evaluated) :
              /\ Le(pt_evaluated[l].metrics["Sharpe Ratio"],
                    pt_evaluated[k].metrics["Sharpe Ratio"])
              /\ l < k => Lt(pt_evaluated[l].metrics["Sharpe Ratio"],
                             pt_evaluated[k].metrics["Sharpe Ratio"])
  /\ (PtEnded /\ \A k \in 1..Len(ticker_pairs) : ~PairYieldsMetrics(ticker_pairs[k])) =>
       pt_ret = PtRaised(PtFailed)

\* -------------------------------------------------------------------- C21
\* Two names that differ in the case of their letters at most.
SameLetter(a, b) ==
  \/ a = b
  \/ <<a, b>> \in {<<"A", "a">>, <<"B", "b">>, <<"C", "c">>, <<"D", "d">>,
                   <<"E", "e">>, <<"F", "f">>, <<"G", "g">>, <<"H", "h">>}
  \/ <<b, a>> \in {<<"A", "a">>, <<"B", "b">>, <<"C", "c">>, <<"D", "d">>,
                   <<"E", "e">>, <<"F", "f">>, <<"G", "g">>, <<"H", "h">>}
SameIgnoringCase(a, b) ==
  Len(a) = Len(b) /\ \A i \in 1..Len(a) : SameLetter(a[i], b[i])

\* The tickers ranked i and j both resolve to one non-empty company name.
SameNamedCompany(i, j) ==
  LET a == long_names[top_companies[i]]
      b == long_names[top_companies[j]]
  IN /\ ~a.raises /\ ~b.raises
     /\ a.longName # << >> /\ b.longName # << >>
     /\ SameIgnoringCase(a.longName, b.longName)

\* C21: the same-company filter removes a pair exactly when both tickers
\* resolve to the same non-empty company name, compared without regard to
\* case: a pair with a missing or empty name, or with a lookup that raises,
\* stays in the search, and no exception leaves the screening because of a
\* lookup: whatever leaves it comes from the backtest of a pair.
C21_FilterRemovesSameNames ==
  PtCombined =>
    /\ \A i, j \in 1..Len(top_companies) :
         i < j =>
           ((\E k \in 1..Len(ticker_pairs) :
               ticker_pairs[k] = <<top_companies[i], top_companies[j]>>)
            <=> ~SameNamedCompany(i, j))
    /\ (pt_ret.status = "raised" /\ pt_ret.err # PtFailed) =>
         /\ pt_i < Len(ticker_pairs)
         /\ ~PairYieldsMetrics(ticker_pairs[pt_i + 1])

\* The filter has run over tickers of which one lookup raises and two others
\* carry one name in different case: the pair of those two is gone, the
\* pairs of the first are kept.
C21_Witness ==
  /\ PtCombined
  /\ \E i \in 1..Len(top_companies) : long_names[top_companies[i]].raises
  /\ \E i, j \in 1..Len(top_companies) :
       /\ i < j /\ SameNamedCompany(i, j)
       /\ long_names[top_companies[i]].longName # long_names[top_companies[j]].longName
  /\ Len(ticker_pairs) >= 2

\* -------------------------------------------------------------------- C22
\* C22: after Backtester.run no entry of strategy_returns is null, +inf or
\* -inf, and every entry of strategy_returns, cumulative_returns and
\* equity_curve is a finite number.
C22_ReturnsFinite ==
  Ran =>
    \A t \in 1..Rows :
      /\ ~IsNull(results.strategy_returns[t])
      /\ ~IsInf(results.strategy_returns[t])
      /\ IsFin(results.strategy_returns[t])
      /\ IsFin(results.cumulative_returns[t])
      /\ IsFin(results.equity_curve[t])

\* -------------------------------------------------------------------- C23
\* The product of (1 + strategy_returns[i]) over the rows up to t.
RECURSIVE GrowthTo(_)
GrowthTo(t) ==
  IF t = 0 THEN Num(1)
  ELSE Mul(GrowthTo(t - 1), Add(Num(1), results.strategy_returns[t]))

\* C23: after a completed run on non-empty data, on every row
\* cumulative_returns is the running product of (1 + strategy_returns) and
\* equity_curve is initial_capital times cumulative_returns; on the first
\* row strategy_returns is 0, cumulative_returns is 1 and equity_curve is
\* initial_capital, the default 100000 or the capital given.
C23_EquityIsCapitalTimesGrowth ==
  (Ran /\ Rows >= 1) =>
    /\ \A t \in 1..Rows :
         /\ results.cumulative_returns[t] = GrowthTo(t)
         /\ results.equity_curve[t] =
              Mul(Num(initial_capital), results.cumulative_returns[t])
    /\ results.strategy_returns[1] = Num(0)
    /\ results.cumulative_returns[1] = Num(1)
    /\ results.equity_curve[1] = Num(initial_capital)

\* A run with a capital other than the default, of several rows, that has
\* gained or lost.
C23_Witness ==
  /\ Ran /\ Rows >= 3
  /\ initial_capital = -DefaultInitialCapital
  /\ IsFin(results.cumulative_returns[Rows])
  /\ results.cumulative_returns[2] # Num(1)
  /\ results.cumulative_returns[Rows] # results.cumulative_returns[2]

TickersOf(companies) == [i \in 1..Len(companies) |-> companies[i][1]]

\* C25: every ticker is submitted once, and what has been collected is at
\* any time the available tickers among those completed, each once; the
\* list returned holds only available tickers with their market caps, none
\* twice, in non-increasing order of market cap; its length is
\* min(num_companies, number available) when num_companies > 0 and the
\* number available otherwise; no available ticker left out has a market
\* cap strictly above that of one included.
C25_RankingOfAvailable ==
  /\ rank_ret.status = "running" =>
       /\ pending \subseteq Range(tickers)
       /\ Range(sp500_companies) = {a \in Range(Available) : a[1] \notin pending}
       /\ Cardinality(Range(TickersOf(sp500_companies))) = Len(sp500_companies)
  /\ RankReturned =>
       /\ pending = {}
       /\ Range(rank_ret.val) \subseteq Range(Available)
       /\ Cardinality(Range(TickersOf(rank_ret.val))) = Len(rank_ret.val)
       /\ \A i \in 1..(Len(rank_ret.val) - 1) :
            Ge(rank_ret.val[i][2], rank_ret.val[i + 1][2])
       /\ Len(rank_ret.val) =
            IF num_companies > 0
            THEN (IF num_companies < Len(Available)
                  THEN num_companies ELSE Len(Available))
            ELSE Len(Available)
       /\ \A a \in Range(Available) \ Range(rank_ret.val) :
            \A b \in Range(rank_ret.val) : ~Gt(a[2], b[2])

\* A list returned that is shorter than the available tickers, one ticker
\* having no market cap and one of a smaller market cap being left out.
C25_Witness ==
  /\ RankReturned
  /\ \E i \in 1..Len(tickers) : info[tickers[i]].marketCap = None
  /\ Len(rank_ret.val) = 1
  /\ \E a \in Range(Available) : Lt(a[2], rank_ret.val[1][2])

\* -------------------------------------------------------------------- C26
\* The price data of a pair.
PairPrices(pair) == LoadTwoTickers(yf_closes[pair[1]], yf_closes[pair[2]])

\* The names of the parameters the call was given.
ParamNames == {pt_strategy_params[j].name : j \in 1..Len(pt_strategy_params)}

\* C26: with optimise = False the best parameters returned are the input
\* strategy_params; with optimise = True they are the parameters
\* optimise_strategy_params selects for the pair returned, under the keys of
\* the input; either way the metrics returned are those a backtest of the
\* pair returned gives with the parameters returned, as recorded when the
\* pair was evaluated.
C26_ParamsAndMetricsOfWinner ==
  PtReturned =>
    /\ DOMAIN pt_ret.val.params = ParamNames
    /\ ~pt_optimise => pt_ret.val.params = ParamDict(pt_strategy_params)
    /\ pt_optimise =>
         \E o \in OptimiseStrategyParams(PairPrices(pt_ret.val.pair), PairsKind,
                                         ParamRanges(pt_strategy_params), polars_build) :
           /\ o.err = "none"
           /\ o.params = pt_ret.val.params
           /\ o.metrics = pt_ret.val.metrics
    /\ \E b \in RunBacktest(PairPrices(pt_ret.val.pair), PairsKind,
                            pt_ret.val.params, polars_build) :
         b.err = "none" /\ b.metrics = pt_ret.val.metrics
    /\ \E k \in 1..Len(pt_evaluated) :
         pt_evaluated[k] = [pair |-> pt_ret.val.pair, metrics |-> pt_ret.val.metrics]

\* An optimising search has returned a pair other than the first it
\* evaluated, with parameters other than those selected for the first.
C26_Witness ==
  /\ PtReturned /\ pt_optimise
  /\ Len(pt_evaluated) >= 2
  /\ pt_evaluated[1].pair # pt_ret.val.pair
  /\ \A o \in OptimiseStrategyParams(PairPrices(pt_evaluated[1].pair), PairsKind,
                                     ParamRanges(pt_strategy_params), polars_build) :
       o.err = "none" /\ o.params # pt_ret.val.params

\* -------------------------------------------------------------------- C27
\* A backtest of the searched data on its own, with a strategy and a
\* Backtester of its own: the ways it can end.
FreshBacktest(strategy_params) ==
  BacktestStrategy(CreateStrategy(strategy_type, strategy_params), opt_data,
                   polars_build)

\* What a candidate was measured as is what a backtest on its own gives.
MeasuredAlone ==
  /\ \A k \in 1..Len(evaluated) :
       \E b \in FreshBacktest(evaluated[k].params) :
         b.err = "none" /\ b.metrics["Sharpe Ratio"] = evaluated[k].sharpe
  /\ OptReturned =>
       \E b \in FreshBacktest(opt_ret.params) :
         b.err = "none" /\ b.metrics = opt_ret.metrics

AllScalar == \A j \in 1..Len(pt_strategy_params) : pt_strategy_params[j].scalar

\* The outcome of a call as far as the caller can tell the pair and its
\* metrics, or the error.
OutcomeOf(r) ==
  IF r.status = "returned" THEN <<"returned", r.val.pair, r.val.metrics>>
  ELSE <<"raised", r.err>>

\* The search over ticker_pairs from the k-th pair on by plain backtests of
\* the fixed parameters, best = [pair, metrics, sharpe_ratio] so far: the
\* outcomes it can end with.
RECURSIVE PlainSearchFrom(_, _)
PlainSearchFrom(k, best) ==
  IF k > Len(ticker_pairs)
  THEN {IF best.pair = NoPair \/ best.metrics = None
        THEN <<"raised", PtFailed>>
        ELSE <<"returned", best.pair, best.metrics>>}
  ELSE IF ~HasPairData(ticker_pairs[k]) THEN PlainSearchFrom(k + 1, best)
  ELSE UNION {IF b.err # "none" THEN {<<"raised", b.err>>}
              ELSE PlainSearchFrom(k + 1,
                     IF Gt(b.metrics["Sharpe Ratio"], best.sharpe_ratio)
                     THEN [pair |-> ticker_pairs[k], metrics |-> b.metrics,
                           sharpe_ratio |-> b.metrics["Sharpe Ratio"]]
                     ELSE best) :
                b \in BacktestStrategy(
                        CreateStrategy(PairsKind, ParamDict(pt_strategy_params)),
                        PairPrices(ticker_pairs[k]), polars_build)}

\* C28: with every parameter a single fixed value the call ends the same
\* way with optimise = True as with optimise = False, whatever the pairs
\* and their Sharpe ratios (NaN included): the same pair and metrics, or
\* the same error.
C28_SameWithAndWithoutOptimise ==
  (PtEnded /\ AllScalar) =>
    OutcomeOf(pt_ret) \in PlainSearchFrom(1, [pair |-> NoPair, metrics |-> None,
                                              sharpe_ratio |-> NInf])

\* ------------------------------------------------------------------ C29
\* A call of one of the three functions that keep the best candidate of a
\* loop: optimise_strategy_params, optimise_buy_and_hold_ticker or
\* optimise_pairs_trading_tickers.
SpecReductions ==
  (OptInit \/ BhInit \/ PtInit) /\ [][OptNext \/ BhNext \/ PtNext]_vars

\* The scores the three loops compared, in the order of the comparisons.
SharpeScores == [j \in 1..Len(evaluated) |-> evaluated[j].sharpe]
TotalReturnScores ==
  [j \in 1..Len(bh_evaluated) |-> bh_evaluated[j].metrics["Total Return"]]
PairScores ==
  [j \in 1..Len(pt_evaluated) |-> pt_evaluated[j].metrics["Sharpe Ratio"]]

\* The position of the first score that attains the maximum of the scores
\* that are numbers, 0 when no score is a number.
FirstMaximum(scores) ==
  IF \A j \in 1..Len(scores) : IsNaN(scores[j]) THEN 0
  ELSE CHOOSE i \in 1..Len(scores) :
         /\ ~IsNaN(scores[i])
         /\ \A j \in 1..Len(scores) : ~IsNaN(scores[j]) => Ge(scores[i], scores[j])
         /\ \A j \in 1..(i - 1) : ~IsNaN(scores[j]) => Gt(scores[i], scores[j])

\* The running best of optimise_strategy_params is the first maximum of the
\* scores compared so far.
OptBestIsFirstMaximum(i) ==
  IF i = 0
  THEN best_sharpe_ratio = NInf /\ best_params = None /\ best_metrics = None
  ELSE /\ best_sharpe_ratio = evaluated[i].sharpe
       /\ best_params = evaluated[i].params
       /\ best_metrics["Sharpe Ratio"] = evaluated[i].sharpe

\* The same for optimise_buy_and_hold_ticker.
BhBestIsFirstMaximum(i) ==
  IF i = 0
  THEN /\ bh_best_total_return = NInf /\ bh_best_ticker = NoTicker
       /\ bh_best_metrics = None
  ELSE /\ bh_best_total_return = bh_evaluated[i].metrics["Total Return"]
       /\ bh_best_ticker = bh_evaluated[i].ticker
       /\ bh_best_metrics = bh_evaluated[i].metrics

\* The same for optimise_pairs_trading_tickers.
PtBestIsFirstMaximum(i) ==
  IF i = 0
  THEN /\ pt_best_sharpe_ratio = NInf /\ pt_best_pair = NoPair
       /\ pt_best_params = None /\ pt_best_metrics = None
  ELSE /\ pt_best_sharpe_ratio = pt_evaluated[i].metrics["Sharpe Ratio"]
       /\ pt_best_pair = pt_evaluated[i].pair
       /\ pt_best_metrics = pt_evaluated[i].metrics

\* The loop has compared at least one candidate and every score was NaN.
OnlyNaN(scores) == Len(scores) > 0 /\ FirstMaximum(scores) = 0

\* C29: in optimise_strategy_params, optimise_pairs_trading_tickers and
\* optimise_buy_and_hold_ticker a candidate whose score is NaN never
\* replaces the running best: after every number of compared candidates the
\* running best is the first candidate that attains the maximum of the
\* scores that are numbers (nothing when there is none), a returned score is
\* never NaN, and a loop that ends with every compared score NaN raises the
\* function's own 'optimisation failed' ValueError.
C29_NaNNeverBest ==
  /\ OptBestIsFirstMaximum(FirstMaximum(SharpeScores))
  /\ BhBestIsFirstMaximum(FirstMaximum(TotalReturnScores))
  /\ PtBestIsFirstMaximum(FirstMaximum(PairScores))
  /\ ~IsNaN(best_sharpe_ratio) /\ ~IsNaN(bh_best_total_return)
  /\ ~IsNaN(pt_best_sharpe_ratio)
  /\ OptReturned => IsFin(opt_ret.metrics["Sharpe Ratio"])
  /\ BhReturned => IsFin(bh_ret.val[3]["Total Return"])
  /\ PtReturned => IsFin(pt_ret.val.metrics["Sharpe Ratio"])
  /\ (OnlyNaN(SharpeScores) /\ opt_i = Len(Combinations) /\ opt_ret.status # "running")
       => (OptRaised /\ opt_ret.err = OptimisationFailed)
  /\ (OnlyNaN(TotalReturnScores) /\ bh_i = Len(top_companies) /\ BhEnded)
       => (bh_ret.status = "raised" /\ bh_ret.err = BhFailed)
  /\ (OnlyNaN(PairScores) /\ pt_i = Len(ticker_pairs) /\ PtEnded)
       => (pt_ret.status = "raised" /\ pt_ret.err = PtFailed)

\* A call of optimise_buy_and_hold_ticker that returned the first ticker
\* after the second one had measured the Total Return NaN.
C29_Witness ==
  /\ BhEnded
  /\ Len(bh_evaluated) = 2
  /\ IsNaN(bh_evaluated[2].metrics["Total Return"])
  /\ IsFin(bh_evaluated[1].metrics["Total Return"])
  /\ BhReturned
  /\ bh_ret.val[1] = bh_evaluated[1].ticker

\* ------------------------------------------------------------------ C30
\* A single-instrument series of at least two rows whose Close values are
\* all strictly positive, backtested with BuyAndHoldStrategy.
BuyAndHoldOnPositivePrices ==
  /\ strategy \in BuyAndHoldStrategies
  /\ "Close" \in Columns(data)
  /\ Height(data) >= 2
  /\ \A t \in 1..Height(data) : Gt(data.Close[t], Num(0))

\* Close[last] / Close[first] - 1
RawPriceReturn(close) == Sub(Div(close[Len(close)], close[1]), Num(1))

\* C30: for every price series of at least 2 rows with strictly positive
\* Close values, a BuyAndHoldStrategy backtest holds positions = 1 on every
\* row, has strategy_returns[t] = asset_returns[t] on every row after the
\* first, and its Total Return is Close[last] / Close[first] - 1.
C30_TotalReturnIsPriceReturn ==
  BuyAndHoldOnPositivePrices =>
    /\ ret.op = "run" =>
         /\ ret.err = "none"
         /\ Height(results) = Height(data)
         /\ \A t \in 1..Height(results) : results.positions[t] = Num(1)
         /\ \A t \in 2..Height(results) :
              results.strategy_returns[t] = results.asset_returns[t]
         /\ Sub(results.cumulative_returns[Height(results)], Num(1))
              = RawPriceReturn(data.Close)
    /\ (ret.op = "get_performance_metrics" /\ completed) =>
         /\ ret.err = "none"
         /\ ret.val["Total Return"] = RawPriceReturn(data.Close)

\* The metrics of a Buy-and-Hold backtest over three or more rows of
\* positive prices that end below a price reached on the way.
C30_Witness ==
  /\ BuyAndHoldOnPositivePrices
  /\ Height(data) >= 3
  /\ ret.op = "get_performance_metrics" /\ completed
  /\ \E t \in 2..(Height(data) - 1) : Gt(data.Close[t], data.Close[Height(data)])
  /\ ~IsZero(ret.val["Total Return"])

====
